---- MODULE Spec2Model ----
(***************************************************************************)
(* Dawarinv: multi-location inventory tracker.  Model of the transfer /    *)
(* daily-log orchestrators of src/App.tsx, the forms that validate their   *)
(* input (TransferModal, UsageModal, MammalEmployeeDashboard), the         *)
(* notification effect and the persistence store they write to.            *)
(*                                                                         *)
(* One client.  An action is one user gesture: the handler's synchronous   *)
(* in-memory update followed by its persistence calls, which all succeed   *)
(* and are applied to the store before the next gesture.                   *)
(***************************************************************************)
EXTENDS Integers, Sequences, FiniteSets, TLC

\* ------------------------------------------------------------------ bounds
MaxTx == 2          \* transactions kept in the log
MaxList == 2        \* entries of one transfer submission
MaxQty == 2         \* largest quantity typed into a transfer form
MaxDeleted == 1     \* items deleted in one run

\* ------------------------------------------------------------ static data
Locations == {"warehouse", "mammal", "b1"}

NoUser == [name |-> "", role |-> "none", branchCode |-> "", accessibleBranches |-> {}]

Users ==
  { [name |-> "admin",     role |-> "admin",             branchCode |-> "",   accessibleBranches |-> {}],
    [name |-> "warehouse", role |-> "warehouse_manager", branchCode |-> "",   accessibleBranches |-> {}],
    [name |-> "employee",  role |-> "mammal_employee",   branchCode |-> "",   accessibleBranches |-> {}],
    [name |-> "branch",    role |-> "branch_manager",    branchCode |-> "b1", accessibleBranches |-> {}] }

\* rows of inventory_items the store is seeded with (quantities scaled down)
SeedItems ==
  << [id |-> <<"db", 1>>, location_id |-> "warehouse", name_en |-> "Coffee", name_ar |-> "Qahwa",
      category |-> "Raw Material", quantity |-> 2, unit |-> "kg", min_threshold |-> 1],
     [id |-> <<"db", 2>>, location_id |-> "mammal", name_en |-> "Coffee", name_ar |-> "Qahwa",
      category |-> "Raw Material", quantity |-> 1, unit |-> "kg", min_threshold |-> 1],
     [id |-> <<"db", 3>>, location_id |-> "b1", name_en |-> "Cups", name_ar |-> "Akwab",
      category |-> "Packaging", quantity |-> 1, unit |-> "pcs", min_threshold |-> 1],
     [id |-> <<"db", 4>>, location_id |-> "warehouse", name_en |-> "Cups", name_ar |-> "Akwab",
      category |-> "Packaging", quantity |-> 1, unit |-> "pcs", min_threshold |-> 1] >>

ItemNames == {"Coffee", "Cups"}

\* ------------------------------------------------------------- variables
VARIABLES
  inventory,         \* useState inventory: location -> list of items
  transactions,      \* useState transactions: newest first
  currentUser,       \* useState currentUser (NoUser = null)
  selectedLocation,  \* useState selectedLocation ("none" = null, "all" = global view)
  notifiedIds,       \* useRef notifiedIds
  alerts,            \* alerts handed to the notification surface in this session: id -> count
  dbItems,           \* store table inventory_items
  dbTxs,             \* store table transactions, newest first
  nextTmp,           \* next locally generated id
  nextDb,            \* next store-assigned id
  nextGrp,           \* next transferGroupId
  lastOp,            \* history: a submission that was refused, or carried out, for asking too much
  deducted,          \* history: transaction id -> quantity taken from its source and not given back
  touched,           \* history: item names changed by usage, receive-log or delete
  nDeleted,          \* history: how many items were deleted
  preQty,            \* history: transaction id -> what its source held before the transfer
  pathPre,           \* history: transfer id -> what source and destination held before it
  noSource,          \* history: transactions confirmed while the source held no item of their name
  pastAlerts,        \* history: the transaction ids alerted in sessions that have ended
  settled,           \* history: transaction id -> how often it was credited and restocked
  inFlight,          \* the handler calls whose persistence calls the store has not all carried out
  peer               \* inventory and transactions of a second client of the same store

vars == << inventory, transactions, currentUser, selectedLocation, notifiedIds, alerts,
           dbItems, dbTxs, nextTmp, nextDb, nextGrp, lastOp, deducted, touched, nDeleted, preQty, pathPre, noSource,
           pastAlerts, settled, inFlight, peer >>

sessionVars == << currentUser, selectedLocation >>
memVars == << inventory, transactions >>
storeVars == << dbItems, dbTxs >>
idVars == << nextTmp, nextDb, nextGrp >>
pastVars == << lastOp, deducted, touched, nDeleted, preQty, pathPre, noSource, pastAlerts >>
histVars == << pastVars, settled >>
asyncVars == << inFlight, peer >>

\* ---------------------------------------------------------------- helpers
\* Array.prototype.findIndex: first index whose element satisfies P, 0 for -1
FindIndex(s, P(_)) ==
  IF \E i \in 1..Len(s) : P(s[i])
    THEN CHOOSE i \in 1..Len(s) : P(s[i]) /\ \A j \in 1..(i-1) : ~P(s[j])
    ELSE 0

Range(s) == { s[i] : i \in 1..Len(s) }

RECURSIVE SumSeq(_)
SumSeq(s) == IF s = << >> THEN 0 ELSE Head(s) + SumSeq(Tail(s))

\* generateId() yields 9 characters, the store yields uuids; `id.length < 15`
IsTemp(id) == id[1] = "tmp"

\* (i.nameEn === t.itemNameEn || i.nameAr === t.itemNameAr)
NameMatch(i, t) == i.nameEn = t.itemNameEn \/ i.nameAr = t.itemNameAr

InvAt(inv, loc) == IF loc \in DOMAIN inv THEN inv[loc] ELSE << >>

\* fetchData: inventory_items rows -> Record<location, InventoryItem[]>
RowToItem(r) ==
  [id |-> r.id, nameEn |-> r.name_en, nameAr |-> r.name_ar, category |-> r.category,
   quantity |-> r.quantity, unit |-> r.unit, minThreshold |-> r.min_threshold]

RowsToInventory(rows) ==
  [loc \in Locations |->
     LET mine == SelectSeq(rows, LAMBDA r : r.location_id = loc)
     IN  [i \in 1..Len(mine) |-> RowToItem(mine[i])]]

\* fetchData: transactions rows -> Transaction[]
RowToTx(r) ==
  [id |-> r.id, transferGroupId |-> r.transfer_group_id, type |-> r.type, status |-> r.status,
   fromLocation |-> r.from_location, toLocation |-> r.to_location,
   itemNameEn |-> r.item_name_en, itemNameAr |-> r.item_name_ar,
   quantity |-> r.quantity, unit |-> r.unit,
   rejectionReason |-> r.rejection_reason]

TxToRow(t, newId) ==
  [id |-> newId, transfer_group_id |-> t.transferGroupId, type |-> t.type, status |-> t.status,
   from_location |-> t.fromLocation, to_location |-> t.toLocation,
   item_name_en |-> t.itemNameEn, item_name_ar |-> t.itemNameAr,
   quantity |-> t.quantity, unit |-> t.unit, rejection_reason |-> ""]

\* supabase.from('inventory_items').update({quantity}).eq('id', id): no row, no change
DbSetQuantity(rows, id, qty) ==
  [i \in 1..Len(rows) |-> IF rows[i].id = id THEN [rows[i] EXCEPT !.quantity = qty] ELSE rows[i]]

\* supabase.from('transactions').update({status}).eq('id', id)
DbSetStatus(rows, id, status) ==
  [i \in 1..Len(rows) |-> IF rows[i].id = id THEN [rows[i] EXCEPT !.status = status] ELSE rows[i]]

\* supabase.from('transactions').update({status: 'rejected', rejection_reason}).eq('id', id)
DbSetRejected(rows, id, reason) ==
  [i \in 1..Len(rows) |->
     IF rows[i].id = id THEN [rows[i] EXCEPT !.status = "rejected", !.rejection_reason = reason]
     ELSE rows[i]]

\* ------------------------------------------------- notification effect
\* the filter without its look at notifiedIds
RelevantIncoming_NoDedup(txs, sel, notified) ==
  SelectSeq(txs, LAMBDA t : t.toLocation = sel /\ t.status = "pending_target")

\* App.tsx 243-268.  The effect runs after every render in which transactions,
\* currentUser or selectedLocation changed.
RelevantIncoming(txs, sel, notified) ==
  SelectSeq(txs, LAMBDA t : t.toLocation = sel /\ t.status = "pending_target" /\ t.id \notin notified)

AlertCount(al, id) == IF id \in DOMAIN al THEN al[id] ELSE 0

\* the pair <<notifiedIds, alerts>> after the effect has run on txs
NotificationEffect(txs, user, sel, notified, al) ==
  IF user = NoUser THEN << notified, al >>
  ELSE LET rel == RelevantIncoming(txs, sel, notified)
           ids == { rel[i].id : i \in 1..Len(rel) }
       IN  << notified \cup ids,
              [id \in DOMAIN al \cup ids |->
                 AlertCount(al, id) + Cardinality({ i \in 1..Len(rel) : rel[i].id = id })] >>

\* --------------------------------------------------------------- history
\* kind: the operation; ok: it was carried out; over: it asked for more than
\* the stock it names (for a bulk log: it held an invalid entry); mixed: it
\* also held an entry that could have been carried out
MkOp(kind, ok, over, mixed) == [kind |-> kind, ok |-> ok, over |-> over, mixed |-> mixed]

NoOp == MkOp("none", TRUE, FALSE, FALSE)

\* the record of a submission the form refused
Refused(kind, over, mixed) == IF over THEN MkOp(kind, FALSE, TRUE, mixed) ELSE NoOp

\* the record of a submission that was carried out
Done(kind, over, mixed) == IF over THEN MkOp(kind, TRUE, TRUE, mixed) ELSE NoOp

\* ------------------------------------------------------------- session
\* App.tsx 930-1042: which screen is rendered
Screen ==
  IF currentUser = NoUser THEN "login"
  ELSE IF currentUser.role = "admin" /\ selectedLocation = "none" THEN "admin"
  ELSE IF currentUser.role = "mammal_employee" /\ selectedLocation = "mammal" THEN "mammalDashboard"
  ELSE IF selectedLocation = "none" THEN "locationSelection"
  ELSE "inventoryDashboard"

\* App.tsx 271-284
availableLocations(user) ==
  IF user.role = "branch_manager" THEN user.accessibleBranches \cup {user.branchCode}
  ELSE IF user.role = "mammal_employee" THEN {"mammal"}
  ELSE Locations

\* the effect on the log as it stands, for a new viewer / location
SessionEffect(user, sel) == NotificationEffect(transactions, user, sel, notifiedIds, alerts)

\* App.tsx 302-324
handleLogin(user) ==
  /\ Screen = "login"
  /\ LET sel == IF user.role = "branch_manager"
                  THEN (IF user.branchCode = "" THEN "none" ELSE user.branchCode)
                ELSE IF user.role = "mammal_employee" THEN "mammal"
                ELSE "none"
         eff == NotificationEffect(transactions, user, sel, notifiedIds, alerts)
     IN  /\ currentUser' = user
         /\ selectedLocation' = sel
         /\ notifiedIds' = eff[1]
         /\ alerts' = eff[2]
  /\ lastOp' = NoOp
  /\ UNCHANGED << memVars, storeVars, idVars, deducted, touched, nDeleted, settled, pastAlerts, asyncVars, preQty, pathPre, noSource >>

\* the logout that leaves notifiedIds as it is
Logout_KeepsNotified ==
  /\ Screen # "login"
  /\ currentUser' = NoUser
  /\ selectedLocation' = "none"
  /\ notifiedIds' = notifiedIds
  /\ alerts' = [id \in {} |-> 0]
  /\ lastOp' = NoOp
  /\ UNCHANGED << memVars, storeVars, idVars, deducted, touched, nDeleted, settled, asyncVars, preQty, pathPre, noSource >>

\* App.tsx 326-332; the alerts counted are those of the session, so the count
\* starts again
Logout ==
  /\ Screen # "login"
  /\ currentUser' = NoUser
  /\ selectedLocation' = "none"
  /\ notifiedIds' = {}
  /\ alerts' = [id \in {} |-> 0]
  /\ lastOp' = NoOp
  /\ UNCHANGED << memVars, storeVars, idVars, deducted, touched, nDeleted, settled, asyncVars, preQty, pathPre, noSource >>

\* the logout button
handleLogout ==
  /\ Logout
  /\ UNCHANGED pastAlerts

\* the logout button, with the ids alerted in the session that ends kept on record
handleLogoutNoted ==
  /\ Logout
  /\ pastAlerts' = pastAlerts \cup notifiedIds

\* LocationSelection.tsx onSelect, AdminDashboard onManageLocation
SelectLocation(loc) ==
  /\ \/ /\ Screen = "admin"
        /\ loc \in Locations
     \/ /\ Screen = "locationSelection"
        /\ \/ loc \in availableLocations(currentUser)
           \/ loc = "all" /\ currentUser.role \in {"admin", "warehouse_manager"}
  /\ LET eff == SessionEffect(currentUser, loc)
     IN  /\ selectedLocation' = loc
         /\ notifiedIds' = eff[1]
         /\ alerts' = eff[2]
  /\ lastOp' = NoOp
  /\ UNCHANGED << currentUser, memVars, storeVars, idVars, deducted, touched, nDeleted, settled, pastAlerts, asyncVars, preQty, pathPre, noSource >>

\* InventoryDashboard onBack
Back ==
  /\ Screen = "inventoryDashboard"
  /\ selectedLocation' = "none"
  /\ LET eff == SessionEffect(currentUser, "none")
     IN  /\ notifiedIds' = eff[1]
         /\ alerts' = eff[2]
  /\ lastOp' = NoOp
  /\ UNCHANGED << currentUser, memVars, storeVars, idVars, deducted, touched, nDeleted, settled, pastAlerts, asyncVars, preQty, pathPre, noSource >>

\* ------------------------------------------------------ transfer form
\* the longer of the log in memory and the log in the store
LogSize == IF Len(dbTxs) > Len(transactions) THEN Len(dbTxs) ELSE Len(transactions)

\* what the dashboard hands to its modals: inventory[selectedLocation] || []
displayInventory == InvAt(inventory, selectedLocation)

\* the validation without its comparison with the stock
ValidateTransferList_NoStock(list, items) ==
  IF \E k \in 1..Len(list) : list[k].quantity <= 0 THEN "qtyGreaterZero" ELSE "ok"

\* TransferModal.tsx 320-332: the first entry that fails decides the message
RECURSIVE ValidateTransferList(_, _)
ValidateTransferList(list, items) ==
  IF list = << >> THEN "ok"
  ELSE LET item == Head(list)
           idx == FindIndex(items, LAMBDA i : i.id = item.itemId)
           maxQty == IF idx = 0 THEN 0 ELSE items[idx].quantity
       IN  IF item.quantity <= 0 THEN "qtyGreaterZero"
           ELSE IF item.quantity > maxQty THEN "insufficientStock"
           ELSE ValidateTransferList(Tail(list), items)

\* TransferModal.tsx 314-344 (handleSubmit), up to the call of onTransfer
TransferModalCheck(list, targetLocation, items) ==
  IF Len(list) = 0 THEN "noItemsInList"
  ELSE IF targetLocation = "" THEN "selectLocation"
  ELSE ValidateTransferList(list, items)

\* --------------------------------------------------------- handleTransfer
\* the authority check with a warehouse manager who manages the warehouse only
isManagerOfSource_WarehouseOnly(user, fromLocation) ==
  \/ user.role = "branch_manager" /\ user.branchCode = fromLocation
  \/ user.role = "warehouse_manager" /\ fromLocation = "warehouse"
  \/ user.role = "admin"

\* App.tsx 556-559
isManagerOfSource(user, fromLocation) ==
  \/ user.role = "branch_manager" /\ user.branchCode = fromLocation
  \/ user.role = "warehouse_manager" /\ fromLocation \in {"warehouse", "mammal"}
  \/ user.role = "admin"

\* App.tsx 561
InitialStatus(user, fromLocation) ==
  IF isManagerOfSource(user, fromLocation) THEN "pending_target" ELSE "pending_source"

\* the loop that handles the first entry and drops the rest
TransferLoop_FirstOnly(items, usi, newTx, user, fromLocation, toLocation, grp, tmp) ==
  IF items = << >> THEN [usi |-> usi, txs |-> newTx]
  ELSE LET transferItem == Head(items)
           idx == FindIndex(usi, LAMBDA i : i.id = transferItem.itemId)
       IN  IF idx = 0 THEN [usi |-> usi, txs |-> newTx]
           ELSE [usi |-> IF isManagerOfSource(user, fromLocation)
                           THEN [usi EXCEPT ![idx].quantity = @ - transferItem.quantity]
                           ELSE usi,
                 txs |-> Append(newTx,
                           [id |-> <<"tmp", tmp>>, transferGroupId |-> grp, type |-> "transfer",
                            status |-> InitialStatus(user, fromLocation),
                            fromLocation |-> fromLocation, toLocation |-> toLocation,
                            itemNameEn |-> usi[idx].nameEn, itemNameAr |-> usi[idx].nameAr,
                            quantity |-> transferItem.quantity, unit |-> usi[idx].unit,
                            rejectionReason |-> ""])]

\* App.tsx 568-596, the optimistic update loop: [usi, txs] after the entries of items
RECURSIVE TransferLoop(_, _, _, _, _, _, _, _)
TransferLoop(items, usi, newTx, user, fromLocation, toLocation, grp, tmp) ==
  IF items = << >> THEN [usi |-> usi, txs |-> newTx]
  ELSE LET transferItem == Head(items)
           idx == FindIndex(usi, LAMBDA i : i.id = transferItem.itemId)
       IN  IF idx = 0
             THEN TransferLoop(Tail(items), usi, newTx, user, fromLocation, toLocation, grp, tmp)
             ELSE LET sourceItem == usi[idx]
                      usi2 == IF isManagerOfSource(user, fromLocation)
                                THEN [usi EXCEPT ![idx].quantity = sourceItem.quantity - transferItem.quantity]
                                ELSE usi
                      tx == [id |-> <<"tmp", tmp>>, transferGroupId |-> grp, type |-> "transfer",
                             status |-> InitialStatus(user, fromLocation),
                             fromLocation |-> fromLocation, toLocation |-> toLocation,
                             itemNameEn |-> sourceItem.nameEn, itemNameAr |-> sourceItem.nameAr,
                             quantity |-> transferItem.quantity, unit |-> sourceItem.unit,
                             rejectionReason |-> ""]
                  IN  TransferLoop(Tail(items), usi2, Append(newTx, tx), user, fromLocation,
                                   toLocation, grp, tmp + 1)

\* App.tsx 609-617: one store update per entry, computed from the inventory the
\* handler was rendered with: << id, quantity >>, or << >> for Promise.resolve()
TransferWrites(items, inv, fromLocation) ==
  [k \in 1..Len(items) |->
     LET src == InvAt(inv, fromLocation)
         idx == FindIndex(src, LAMBDA i : i.id = items[k].itemId)
     IN  IF idx = 0 THEN << >> ELSE << items[k].itemId, src[idx].quantity - items[k].quantity >>]

\* the updates of one Promise.all, carried out by the store in the order p
RECURSIVE ApplyWrites(_, _, _, _)
ApplyWrites(rows, writes, p, k) ==
  IF k > Len(writes) THEN rows
  ELSE LET w == writes[p[k]]
       IN  ApplyWrites(IF w = << >> THEN rows ELSE DbSetQuantity(rows, w[1], w[2]), writes, p, k + 1)

\* the mapping that looks at the first returned row only
MapRealIds_FirstRowOnly(updated, data) ==
  IF data = << >> THEN updated
  ELSE LET dbTx == Head(data)
           index == FindIndex(updated, LAMBDA t : /\ t.transferGroupId = dbTx.transfer_group_id
                                                  /\ t.itemNameEn = dbTx.item_name_en
                                                  /\ IsTemp(t.id))
       IN  IF index = 0 THEN updated ELSE [updated EXCEPT ![index].id = dbTx.id]

\* App.tsx 640-656: map the store's ids back onto the optimistic transactions
RECURSIVE MapRealIds(_, _)
MapRealIds(updated, data) ==
  IF data = << >> THEN updated
  ELSE LET dbTx == Head(data)
           index == FindIndex(updated, LAMBDA t : /\ t.transferGroupId = dbTx.transfer_group_id
                                                  /\ t.itemNameEn = dbTx.item_name_en
                                                  /\ IsTemp(t.id))
       IN  MapRealIds(IF index = 0 THEN updated ELSE [updated EXCEPT ![index].id = dbTx.id],
                      Tail(data))

\* the insert of `.insert(rows).select()`: the store numbers the rows
InsertTxRows(txs, firstId) == [j \in 1..Len(txs) |-> TxToRow(txs[j], <<"db", firstId + j - 1>>)]

\* history: some entry asks for more than its item holds at the source
AsksTooMuch(list, fromLocation) ==
  \E k \in 1..Len(list) : \E i \in Range(InvAt(inventory, fromLocation)) :
     i.id = list[k].itemId /\ list[k].quantity > i.quantity

\* history: some entry asks for no more than its item holds at the source
AsksInStock(list, fromLocation) ==
  \E k \in 1..Len(list) : \E i \in Range(InvAt(inventory, fromLocation)) :
     i.id = list[k].itemId /\ list[k].quantity > 0 /\ list[k].quantity <= i.quantity

\* history: the record of a submission handleTransfer carried out: asked is the
\* number of its entries, found the number of entries whose id the source
\* holds, distinct says that no two entries name the same id
Submitted(items, fromLocation) ==
  LET src == InvAt(inventory, fromLocation)
      over == AsksTooMuch(items, fromLocation)
  IN  [kind |-> "transfer", ok |-> TRUE, over |-> over,
       mixed |-> over /\ AsksInStock(items, fromLocation),
       asked |-> Len(items),
       found |-> Cardinality({ k \in 1..Len(items) : \E i \in Range(src) : i.id = items[k].itemId }),
       distinct |-> \A a, b \in 1..Len(items) : a # b => items[a].itemId # items[b].itemId]

\* history: what location loc holds of the item that transaction t names
QtyOf(inv, loc, t) ==
  LET here == InvAt(inv, loc)
  IN  SumSeq([k \in 1..Len(here) |-> IF NameMatch(here[k], t) THEN here[k].quantity ELSE 0])

\* history: deducted after a step that changed the source stock of transaction t
Remeasure(t) ==
  [deducted EXCEPT ![t.id] = @ + QtyOf(inventory, t.fromLocation, t) - QtyOf(inventory', t.fromLocation, t)]

TxById(txs, id) == CHOOSE t \in Range(txs) : t.id = id

\* history: the tracked transfers whose source stock this step left alone
StillTracked(except) ==
  { id \in DOMAIN preQty :
      /\ \E t \in Range(transactions) : t.id = id
      /\ \/ id \in except
         \/ LET t == TxById(transactions, id)
            IN  QtyOf(inventory', t.fromLocation, t) = QtyOf(inventory, t.fromLocation, t) }

KeepPre(except) == [id \in StillTracked(except) |-> preQty[id]]

\* history: the transfers of this submission that are its only one for their item
TrackNew(created) ==
  LET single == { t \in Range(created) :
                    \A u \in Range(created) : u.id # t.id => ~(u.itemNameEn = t.itemNameEn) }
      ids == { t.id : t \in single }
  IN  [id \in StillTracked({}) \cup ids |->
         IF id \in ids THEN LET t == CHOOSE c \in single : c.id = id
                            IN  QtyOf(inventory, t.fromLocation, t)
         ELSE preQty[id]]

\* history: the transfers on record whose item no step but their own changed,
\* at their source and at their destination
PathKeep(own) ==
  [id \in { i \in DOMAIN pathPre :
              /\ \E t \in Range(transactions) : t.id = i
              /\ \/ i \in own
                 \/ LET t == TxById(transactions, i)
                    IN  /\ QtyOf(inventory', t.fromLocation, t) = QtyOf(inventory, t.fromLocation, t)
                        /\ QtyOf(inventory', t.toLocation, t) = QtyOf(inventory, t.toLocation, t) }
     |-> pathPre[id]]

\* history: what the source and the destination of t hold of its item, and
\* whether the destination holds an item of that name at all
PathRecord(t) ==
  [src |-> QtyOf(inventory, t.fromLocation, t),
   dst |-> QtyOf(inventory, t.toLocation, t),
   had |-> \E i \in Range(InvAt(inventory, t.toLocation)) : NameMatch(i, t)]

\* history: the transfers of this submission that are its only one for their
\* item and go to another location are put on record
PathTrackNew(created) ==
  LET single == { t \in Range(created) :
                    /\ t.fromLocation # t.toLocation
                    /\ \A u \in Range(created) : u.id # t.id => ~(u.itemNameEn = t.itemNameEn) }
      ids == { t.id : t \in single }
      kept == PathKeep({})
  IN  [id \in DOMAIN kept \cup ids |->
         IF id \in ids THEN PathRecord(CHOOSE c \in single : c.id = id) ELSE kept[id]]

\* App.tsx 550-665 with every persistence call succeeding
handleTransfer(items, toLocation, sourceOverride) ==
  LET fromLocation == IF sourceOverride # "" THEN sourceOverride ELSE selectedLocation
      mgr == isManagerOfSource(currentUser, fromLocation)
      loop == TransferLoop(items, InvAt(inventory, fromLocation), << >>, currentUser,
                           fromLocation, toLocation, nextGrp, nextTmp)
      newTransactions == loop.txs
      n == Len(newTransactions)
      txs1 == newTransactions \o transactions
      eff1 == NotificationEffect(txs1, currentUser, selectedLocation, notifiedIds, alerts)
      data == InsertTxRows(newTransactions, nextDb)
      txs2 == MapRealIds(txs1, data)
      eff2 == NotificationEffect(txs2, currentUser, selectedLocation, eff1[1], eff1[2])
      created == SubSeq(txs2, 1, n)
      writes == TransferWrites(items, inventory, fromLocation)
  IN  /\ currentUser # NoUser
      /\ fromLocation \notin {"none", "all"}
      /\ inventory' = IF mgr THEN [inventory EXCEPT ![fromLocation] = loop.usi] ELSE inventory
      /\ nextTmp' = nextTmp + n
      /\ nextGrp' = IF n > 0 THEN nextGrp + 1 ELSE nextGrp
      /\ IF n > 0
           THEN /\ transactions' = txs2
                /\ notifiedIds' = eff2[1]
                /\ alerts' = eff2[2]
                /\ dbTxs' = data \o dbTxs
                /\ nextDb' = nextDb + n
                /\ IF mgr
                     THEN \E p \in Permutations(1..Len(writes)) :
                             dbItems' = ApplyWrites(dbItems, writes, p, 1)
                     ELSE dbItems' = dbItems
           ELSE /\ transactions' = txs1
                /\ notifiedIds' = eff1[1]
                /\ alerts' = eff1[2]
                /\ UNCHANGED << dbItems, dbTxs, nextDb >>
      /\ lastOp' = Submitted(items, fromLocation)
      /\ preQty' = TrackNew(IF mgr THEN created ELSE << >>)
      /\ pathPre' = PathTrackNew(created)
      /\ deducted' = [id \in DOMAIN deducted \cup { t.id : t \in Range(created) } |->
                        IF id \in DOMAIN deducted THEN deducted[id]
                        ELSE LET t == CHOOSE c \in Range(created) : c.id = id
                             IN  IF mgr THEN t.quantity ELSE 0]
      /\ UNCHANGED << currentUser, selectedLocation, touched, nDeleted, settled, pastAlerts, asyncVars, noSource >>

\* the lists a transfer form can hold: entries added by hand or read from a
\* document, in any number for one item
TransferEntries == [itemId : { i.id : i \in Range(displayInventory) }, quantity : 0..MaxQty]

TransferLists == UNION { [1..n -> TransferEntries] : n \in 0..MaxList }

\* the transfer button of the dashboard, TransferModal filled in and submitted
SubmitTransferOf(list, targetLocation) ==
  /\ LogSize + Len(list) <= MaxTx
  /\ LET verdict == TransferModalCheck(list, targetLocation, displayInventory)
     IN  IF verdict = "ok"
           THEN handleTransfer(list, targetLocation, selectedLocation)
           ELSE /\ lastOp' = Refused("transfer", AsksTooMuch(list, selectedLocation),
                                          AsksInStock(list, selectedLocation))
                /\ UNCHANGED << memVars, sessionVars, notifiedIds, alerts, storeVars, idVars,
                                deducted, touched, nDeleted, settled, pastAlerts, asyncVars, preQty, pathPre, noSource >>

SubmitTransfer ==
  /\ Screen = "inventoryDashboard"
  /\ selectedLocation # "all"
  /\ \E list \in TransferLists : \E targetLocation \in Locations \cup {""} :
        SubmitTransferOf(list, targetLocation)

\* an id that no item carries: an entry read from a document may name it
UnknownId == << "db", 0 >>

\* the lists the earlier definition of the form can hold
UncheckedLists ==
  UNION { [1..n -> [itemId : { i.id : i \in Range(displayInventory) } \cup {UnknownId},
                    quantity : 1..MaxQty]] : n \in 0..MaxList }

\* TransferModal.tsx 98-105, the earlier definition of the form: handleSubmit
\* looks at the list's length and the target only
TransferModalCheck0(list, targetLocation) ==
  IF Len(list) = 0 THEN "noItemsInList"
  ELSE IF targetLocation = "" THEN "selectLocation"
  ELSE "ok"

\* the transfer button of the dashboard with the earlier definition of the form
SubmitTransferUnchecked ==
  /\ Screen = "inventoryDashboard"
  /\ selectedLocation # "all"
  /\ \E list \in UncheckedLists : \E targetLocation \in Locations \cup {""} :
        /\ LogSize + Len(list) <= MaxTx
        /\ IF TransferModalCheck0(list, targetLocation) = "ok"
             THEN handleTransfer(list, targetLocation, selectedLocation)
             ELSE /\ lastOp' = NoOp
                  /\ UNCHANGED << memVars, sessionVars, notifiedIds, alerts, storeVars, idVars,
                                  deducted, touched, nDeleted, settled, pastAlerts, asyncVars, preQty, pathPre, noSource >>

\* ------------------------------------------- the other handlers' effects
\* What one handler call does: inv, txs, tmp are the in-memory state after its
\* setInventory / setTransactions updaters, the rest are the persistence calls
\* it issues: quantity updates << id, quantity >>, inserted inventory rows,
\* inserted transactions and status updates.
Start == [inv |-> inventory, txs |-> transactions, tmp |-> nextTmp,
          writes |-> << >>, itemInserts |-> << >>, txInserts |-> << >>, txUpdates |-> << >>]

\* setInventory(prev => ... prev[loc].map(i => i.id === id ? {...i, quantity: i.quantity + d} : i))
AddQuantity(inv, loc, id, d) ==
  [inv EXCEPT ![loc] = [k \in 1..Len(@) |->
                          IF @[k].id = id THEN [@[k] EXCEPT !.quantity = @ + d] ELSE @[k]]]

\* setTransactions(prev => prev.map(t => t.id === id ? {...t, status} : t))
SetStatus(txs, id, status) ==
  [k \in 1..Len(txs) |-> IF txs[k].id = id THEN [txs[k] EXCEPT !.status = status] ELSE txs[k]]

\* setTransactions(prev => prev.map(t => t.id === id ? {...t, status: 'rejected', rejectionReason} : t))
SetRejected(txs, id, reason) ==
  [k \in 1..Len(txs) |->
     IF txs[k].id = id THEN [txs[k] EXCEPT !.status = "rejected", !.rejectionReason = reason]
     ELSE txs[k]]

NewItem(id, t, category) ==
  [id |-> id, nameEn |-> t.itemNameEn, nameAr |-> t.itemNameAr, category |-> category,
   quantity |-> t.quantity, unit |-> t.unit, minThreshold |-> 0]

NewItemRow(loc, t, category) ==
  [id |-> <<"db", 0>>, location_id |-> loc, name_en |-> t.itemNameEn, name_ar |-> t.itemNameAr,
   category |-> category, quantity |-> t.quantity, unit |-> t.unit, min_threshold |-> 0]

\* the confirmation that advances the status and leaves the stock alone
ConfirmSourceCall_StatusOnly(st, rendered, transaction) ==
  [st EXCEPT
     !.txs = SetStatus(@, transaction.id, "pending_target"),
     !.txUpdates = Append(@, << transaction.id, "pending_target" >>)]

\* the confirmation that does nothing when the source holds no item of the name
ConfirmSourceCall_SkipWhenMissing(st, rendered, transaction) ==
  LET src == InvAt(rendered, transaction.fromLocation)
      idx == FindIndex(src, LAMBDA i : NameMatch(i, transaction))
  IN  IF idx = 0 THEN st
      ELSE [st EXCEPT
              !.inv = AddQuantity(@, transaction.fromLocation, src[idx].id, 0 - transaction.quantity),
              !.txs = SetStatus(@, transaction.id, "pending_target"),
              !.writes = Append(@, << src[idx].id, src[idx].quantity - transaction.quantity >>),
              !.txUpdates = Append(@, << transaction.id, "pending_target" >>)]

\* App.tsx 667-693; `rendered` is the inventory of the render the handler closes over
ConfirmSourceCall(st, rendered, transaction) ==
  LET src == InvAt(rendered, transaction.fromLocation)
      idx == FindIndex(src, LAMBDA i : NameMatch(i, transaction))
  IN  [st EXCEPT
         !.inv = IF idx = 0 THEN @
                 ELSE AddQuantity(@, transaction.fromLocation, src[idx].id, 0 - transaction.quantity),
         !.txs = SetStatus(@, transaction.id, "pending_target"),
         !.writes = IF idx = 0 THEN @
                    ELSE Append(@, << src[idx].id, src[idx].quantity - transaction.quantity >>),
         !.txUpdates = Append(@, << transaction.id, "pending_target" >>)]

\* the receipt that never looks for an item of the name at the destination
ReceiveCall_AlwaysNew(st, rendered, transaction) ==
  LET targetLocation == transaction.toLocation
  IN  [st EXCEPT
         !.inv = [@ EXCEPT ![targetLocation] =
                    Append(@, NewItem(<<"tmp", st.tmp>>, transaction, "Received"))],
         !.tmp = @ + 1,
         !.txs = SetStatus(@, transaction.id, "completed"),
         !.itemInserts = Append(@, NewItemRow(targetLocation, transaction, "Received")),
         !.txUpdates = Append(@, << transaction.id, "completed" >>)]

\* App.tsx 695-749
ReceiveCall(st, rendered, transaction) ==
  LET targetLocation == transaction.toLocation
      existingItems == InvAt(rendered, targetLocation)
      idx == FindIndex(existingItems, LAMBDA i : NameMatch(i, transaction))
  IN  [st EXCEPT
         !.inv = IF idx # 0
                   THEN AddQuantity(@, targetLocation, existingItems[idx].id, transaction.quantity)
                   ELSE [@ EXCEPT ![targetLocation] =
                           Append(@, NewItem(<<"tmp", st.tmp>>, transaction, "Received"))],
         !.tmp = IF idx # 0 THEN @ ELSE @ + 1,
         !.txs = SetStatus(@, transaction.id, "completed"),
         !.writes = IF idx # 0
                      THEN Append(@, << existingItems[idx].id,
                                        existingItems[idx].quantity + transaction.quantity >>)
                      ELSE @,
         !.itemInserts = IF idx # 0 THEN @
                         ELSE Append(@, NewItemRow(targetLocation, transaction, "Received")),
         !.txUpdates = Append(@, << transaction.id, "completed" >>)]

\* the rejection that marks every transaction of the transfer group
RejectCall_WholeGroup(st, rendered, transaction, reason) ==
  LET sourceLocation == transaction.fromLocation
      wasDeducted == transaction.status = "pending_target"
      src == InvAt(rendered, sourceLocation)
      idx == FindIndex(src, LAMBDA i : NameMatch(i, transaction))
  IN  [st EXCEPT
         !.inv = IF ~wasDeducted THEN @
                 ELSE IF idx # 0
                   THEN AddQuantity(@, sourceLocation, src[idx].id, transaction.quantity)
                   ELSE [@ EXCEPT ![sourceLocation] =
                           Append(@, NewItem(<<"tmp", st.tmp>>, transaction, "Returned"))],
         !.tmp = IF wasDeducted /\ idx = 0 THEN @ + 1 ELSE @,
         !.txs = [k \in 1..Len(st.txs) |->
                    IF st.txs[k].transferGroupId = transaction.transferGroupId
                      THEN [st.txs[k] EXCEPT !.status = "rejected", !.rejectionReason = reason]
                      ELSE st.txs[k]],
         !.writes = IF wasDeducted /\ idx # 0
                      THEN Append(@, << src[idx].id, src[idx].quantity + transaction.quantity >>)
                      ELSE @,
         !.itemInserts = IF wasDeducted /\ idx = 0
                           THEN Append(@, NewItemRow(sourceLocation, transaction, "Returned"))
                           ELSE @,
         !.txUpdates = Append(@, << transaction.id, "rejected", reason >>)]

\* the rejection that restocks an item the source holds and recreates none
RejectCall_NoRecreate(st, rendered, transaction, reason) ==
  LET sourceLocation == transaction.fromLocation
      wasDeducted == transaction.status = "pending_target"
      src == InvAt(rendered, sourceLocation)
      idx == FindIndex(src, LAMBDA i : NameMatch(i, transaction))
  IN  [st EXCEPT
         !.inv = IF wasDeducted /\ idx # 0
                   THEN AddQuantity(@, sourceLocation, src[idx].id, transaction.quantity)
                   ELSE @,
         !.txs = SetRejected(@, transaction.id, reason),
         !.writes = IF wasDeducted /\ idx # 0
                      THEN Append(@, << src[idx].id, src[idx].quantity + transaction.quantity >>)
                      ELSE @,
         !.txUpdates = Append(@, << transaction.id, "rejected", reason >>)]

\* the rejection that restocks the source whatever the status was
RejectCall_AlwaysRestock(st, rendered, transaction, reason) ==
  LET sourceLocation == transaction.fromLocation
      src == InvAt(rendered, sourceLocation)
      idx == FindIndex(src, LAMBDA i : NameMatch(i, transaction))
  IN  [st EXCEPT
         !.inv = IF idx # 0
                   THEN AddQuantity(@, sourceLocation, src[idx].id, transaction.quantity)
                   ELSE [@ EXCEPT ![sourceLocation] =
                           Append(@, NewItem(<<"tmp", st.tmp>>, transaction, "Returned"))],
         !.tmp = IF idx = 0 THEN @ + 1 ELSE @,
         !.txs = SetRejected(@, transaction.id, reason),
         !.writes = IF idx # 0
                      THEN Append(@, << src[idx].id, src[idx].quantity + transaction.quantity >>)
                      ELSE @,
         !.itemInserts = IF idx = 0
                           THEN Append(@, NewItemRow(sourceLocation, transaction, "Returned"))
                           ELSE @,
         !.txUpdates = Append(@, << transaction.id, "rejected", reason >>)]

\* App.tsx 751-810
RejectCall(st, rendered, transaction, reason) ==
  LET sourceLocation == transaction.fromLocation
      wasDeducted == transaction.status = "pending_target"
      src == InvAt(rendered, sourceLocation)
      idx == FindIndex(src, LAMBDA i : NameMatch(i, transaction))
  IN  [st EXCEPT
         !.inv = IF ~wasDeducted THEN @
                 ELSE IF idx # 0
                   THEN AddQuantity(@, sourceLocation, src[idx].id, transaction.quantity)
                   ELSE [@ EXCEPT ![sourceLocation] =
                           Append(@, NewItem(<<"tmp", st.tmp>>, transaction, "Returned"))],
         !.tmp = IF wasDeducted /\ idx = 0 THEN @ + 1 ELSE @,
         !.txs = SetRejected(@, transaction.id, reason),
         !.writes = IF wasDeducted /\ idx # 0
                      THEN Append(@, << src[idx].id, src[idx].quantity + transaction.quantity >>)
                      ELSE @,
         !.itemInserts = IF wasDeducted /\ idx = 0
                           THEN Append(@, NewItemRow(sourceLocation, transaction, "Returned"))
                           ELSE @,
         !.txUpdates = Append(@, << transaction.id, "rejected", reason >>)]

\* the transaction of a daily-log entry, App.tsx 827-840 and 878-891
LogTx(id, type, location, item, quantity) ==
  [id |-> id, transferGroupId |-> 0, type |-> type, status |-> "completed",
   fromLocation |-> IF type = "usage" THEN location ELSE "External Supplier",
   toLocation |-> IF type = "usage" THEN "Consumed" ELSE location,
   itemNameEn |-> item.nameEn, itemNameAr |-> item.nameAr,
   quantity |-> quantity, unit |-> item.unit, rejectionReason |-> ""]

\* the log call that takes the quantity off whatever the type
DailyLogCall_AlwaysDeducts(st, rendered, location, type, itemId, quantity) ==
  LET here == InvAt(rendered, location)
      idx == FindIndex(here, LAMBDA i : i.id = itemId)
  IN  IF idx = 0 THEN st
      ELSE LET item == here[idx]
               newQty == item.quantity - quantity
               newTx == LogTx(<<"tmp", st.tmp>>, type, location, item, quantity)
           IN  [st EXCEPT
                  !.inv = [@ EXCEPT ![location] =
                             [k \in 1..Len(@) |->
                                IF @[k].id = itemId THEN [@[k] EXCEPT !.quantity = newQty] ELSE @[k]]],
                  !.tmp = @ + 1,
                  !.txs = << newTx >> \o @,
                  !.writes = Append(@, << itemId, newQty >>),
                  !.txInserts = << newTx >>]

\* App.tsx 812-862
DailyLogCall(st, rendered, location, type, itemId, quantity) ==
  LET here == InvAt(rendered, location)
      idx == FindIndex(here, LAMBDA i : i.id = itemId)
  IN  IF idx = 0 THEN st
      ELSE LET item == here[idx]
               newQty == IF type = "usage" THEN item.quantity - quantity ELSE item.quantity + quantity
               newTx == LogTx(<<"tmp", st.tmp>>, type, location, item, quantity)
           IN  [st EXCEPT
                  !.inv = [@ EXCEPT ![location] =
                             [k \in 1..Len(@) |->
                                IF @[k].id = itemId THEN [@[k] EXCEPT !.quantity = newQty] ELSE @[k]]],
                  !.tmp = @ + 1,
                  !.txs = << newTx >> \o @,
                  !.writes = Append(@, << itemId, newQty >>),
                  !.txInserts = << newTx >>]

\* App.tsx 871-893: [uli, txs, tmp] after the entries of logs
RECURSIVE BulkLogLoop(_, _, _, _, _)
BulkLogLoop(logs, uli, newTx, location, tmp) ==
  IF logs = << >> THEN [uli |-> uli, txs |-> newTx, tmp |-> tmp]
  ELSE LET log == Head(logs)
           idx == FindIndex(uli, LAMBDA i : i.id = log.itemId)
       IN  IF idx = 0 THEN BulkLogLoop(Tail(logs), uli, newTx, location, tmp)
           ELSE LET item == uli[idx]
                    newQty == IF log.type = "usage" THEN item.quantity - log.quantity
                              ELSE item.quantity + log.quantity
                IN  BulkLogLoop(Tail(logs), [uli EXCEPT ![idx].quantity = newQty],
                                Append(newTx, LogTx(<<"tmp", tmp>>, log.type, location, item, log.quantity)),
                                location, tmp + 1)

\* App.tsx 899-906: the store updates are computed from the rendered inventory
BulkLogWrites(logs, rendered, location) ==
  [k \in 1..Len(logs) |->
     LET here == InvAt(rendered, location)
         idx == FindIndex(here, LAMBDA i : i.id = logs[k].itemId)
     IN  IF idx = 0 THEN << >>
         ELSE << logs[k].itemId,
                 IF logs[k].type = "usage" THEN here[idx].quantity - logs[k].quantity
                 ELSE here[idx].quantity + logs[k].quantity >>]

\* App.tsx 864-928
BulkLogCall(st, rendered, location, logs) ==
  LET loop == BulkLogLoop(logs, InvAt(rendered, location), << >>, location, st.tmp)
  IN  [st EXCEPT
         !.inv = [@ EXCEPT ![location] = loop.uli],
         !.tmp = loop.tmp,
         !.txs = loop.txs \o @,
         !.writes = BulkLogWrites(logs, rendered, location),
         !.txInserts = loop.txs]

\* the status updates of the handler calls, each on its own row of transactions:
\* << id, status >>, or << id, "rejected", reason >>
RECURSIVE ApplyTxUpdates(_, _)
ApplyTxUpdates(rows, updates) ==
  IF updates = << >> THEN rows
  ELSE LET u == Head(updates)
       IN  ApplyTxUpdates(IF Len(u) = 3 THEN DbSetRejected(rows, u[1], u[3])
                          ELSE DbSetStatus(rows, u[1], u[2]),
                          Tail(updates))

\* The state after the handler calls collected in st: the in-memory updaters,
\* the notification effect of the following render, and the persistence calls
\* carried out by the store (updates of one row in any order).
Commit(st) ==
  LET eff == NotificationEffect(st.txs, currentUser, selectedLocation, notifiedIds, alerts)
      nI == Len(st.itemInserts)
      nT == Len(st.txInserts)
      itemRows == [j \in 1..nI |-> [st.itemInserts[j] EXCEPT !.id = <<"db", nextDb + j - 1>>]]
      txRows == InsertTxRows(st.txInserts, nextDb + nI)
  IN  /\ inventory' = st.inv
      /\ transactions' = st.txs
      /\ notifiedIds' = eff[1]
      /\ alerts' = eff[2]
      /\ nextTmp' = st.tmp
      /\ nextDb' = nextDb + nI + nT
      /\ \E p \in Permutations(1..Len(st.writes)) :
            dbItems' = ApplyWrites(dbItems, st.writes, p, 1) \o itemRows
      /\ dbTxs' = txRows \o ApplyTxUpdates(dbTxs, st.txUpdates)
      /\ UNCHANGED << currentUser, selectedLocation, nextGrp >>

\* history: settled after calls of handleReceiveTransfer (c = 1) or restocking
\* calls of handleRejectTransfer (r = 1) on the transactions of ids
Settle(ids, c, r) ==
  [id \in DOMAIN settled \cup ids |->
     LET old == IF id \in DOMAIN settled THEN settled[id] ELSE [credits |-> 0, restocks |-> 0]
     IN  IF id \in ids THEN [credits |-> old.credits + c, restocks |-> old.restocks + r] ELSE old]

\* --------------------------------------------------------- the gestures
\* the incoming list without its look at the status
incomingTransfers_AnyStatus ==
  SelectSeq(transactions, LAMBDA t : /\ selectedLocation = "all" \/ t.toLocation = selectedLocation
                                     /\ t.type = "transfer")

\* App.tsx 1000-1003
incomingTransfers ==
  SelectSeq(transactions, LAMBDA t : /\ selectedLocation = "all" \/ t.toLocation = selectedLocation
                                     /\ t.status = "pending_target")

\* App.tsx 1010-1013
outgoingApprovals ==
  SelectSeq(transactions, LAMBDA t : /\ selectedLocation = "all" \/ t.fromLocation = selectedLocation
                                     /\ t.status = "pending_source")

\* the group with every transaction of the log that carries its id
IncomingGroup_WholeGroup(groupId) == SelectSeq(transactions, LAMBDA t : t.transferGroupId = groupId)

\* InventoryDashboard groupedIncoming: the transactions of one group, in list order
IncomingGroup(groupId) == SelectSeq(incomingTransfers, LAMBDA t : t.transferGroupId = groupId)

\* the confirm button of an outgoing approval -> handleConfirmSourceTransfer
ConfirmOutbound ==
  /\ Screen = "inventoryDashboard"
  /\ \E k \in 1..Len(outgoingApprovals) :
       LET transaction == outgoingApprovals[k]
       IN  /\ Commit(ConfirmSourceCall(Start, inventory, transaction))
           /\ deducted' = Remeasure(transaction)
           /\ pathPre' = PathKeep({transaction.id})
           /\ noSource' = IF \E i \in Range(InvAt(inventory, transaction.fromLocation)) :
                                NameMatch(i, transaction)
                             THEN noSource ELSE noSource \cup {transaction.id}
  /\ lastOp' = NoOp
  /\ preQty' = KeepPre({})
  /\ UNCHANGED << touched, nDeleted, settled, pastAlerts, asyncVars >>

\* the accept that receives the first transaction of the group only
BulkAcceptCalls_FirstOnly(st, rendered, group) ==
  IF group = << >> THEN st ELSE ReceiveCall(st, rendered, Head(group))

\* InventoryDashboard handleBulkAccept: every call closes over the same render
RECURSIVE BulkAcceptCalls(_, _, _)
BulkAcceptCalls(st, rendered, group) ==
  IF group = << >> THEN st
  ELSE BulkAcceptCalls(ReceiveCall(st, rendered, Head(group)), rendered, Tail(group))

\* InventoryDashboard groupedIncoming: the groups on display
IncomingGroupIds == { t.transferGroupId : t \in Range(incomingTransfers) }

\* the accept button of an incoming group
BulkAccept ==
  /\ Screen = "inventoryDashboard"
  /\ \E groupId \in IncomingGroupIds :
       /\ Commit(BulkAcceptCalls(Start, inventory, IncomingGroup(groupId)))
       /\ pathPre' = PathKeep({ t.id : t \in Range(IncomingGroup(groupId)) })
       /\ settled' = Settle({ t.id : t \in Range(IncomingGroup(groupId)) }, 1, 0)
  /\ lastOp' = NoOp
  /\ preQty' = KeepPre({})
  /\ UNCHANGED << deducted, touched, nDeleted, pastAlerts, asyncVars, noSource >>

RejectionReasons == {"damaged"}

\* the reject button of an incoming group (rejectionTarget = items[0]), a reason
\* typed in, InventoryDashboard handleReject -> handleRejectTransfer
Reject ==
  /\ Screen = "inventoryDashboard"
  /\ \E groupId \in IncomingGroupIds : \E reason \in RejectionReasons :
       LET rejectionTarget == IncomingGroup(groupId)[1]
       IN  /\ Commit(RejectCall(Start, inventory, rejectionTarget, reason))
           /\ preQty' = KeepPre({rejectionTarget.id})
           /\ pathPre' = PathKeep({})
           /\ deducted' = Remeasure(rejectionTarget)
           /\ settled' = Settle({rejectionTarget.id}, 0, 1)
  /\ lastOp' = NoOp
  /\ UNCHANGED << touched, nDeleted, pastAlerts, asyncVars, noSource >>

\* history: the record of a call of handleRejectTransfer on transaction t
Rejected(t) ==
  [kind |-> "reject", ok |-> TRUE, over |-> FALSE, mixed |-> FALSE, id |-> t.id, was |-> t.status]

\* handleRejectTransfer called with any transfer of the log, whatever its
\* status: the handler looks at the status itself (App.tsx 754)
handleRejectTransfer ==
  /\ Screen = "inventoryDashboard"
  /\ \E k \in 1..Len(transactions) : \E reason \in RejectionReasons :
       LET transaction == transactions[k]
       IN  /\ transaction.type = "transfer"
           /\ Commit(RejectCall(Start, inventory, transaction, reason))
           /\ preQty' = KeepPre({transaction.id})
           /\ pathPre' = PathKeep({})
           /\ deducted' = Remeasure(transaction)
           /\ lastOp' = Rejected(transaction)
           /\ settled' = IF transaction.status = "pending_target"
                            THEN Settle({transaction.id}, 0, 1) ELSE settled
  /\ UNCHANGED << touched, nDeleted, pastAlerts, asyncVars, noSource >>

\* the check without its comparison with the stock
UsageModalCheck_NoStock(qty, item) == IF qty <= 0 THEN "qtyGreaterZero" ELSE "ok"

\* UsageModal.tsx 31-47 (handleSubmit), up to the call of onConfirm
UsageModalCheck(qty, item) ==
  IF qty <= 0 THEN "qtyGreaterZero"
  ELSE IF qty > item.quantity THEN "insufficientStock"
  ELSE "ok"

\* the quantities typed into a usage form
UsageQuantities == 0..MaxQty + 1

\* the usage button of an item, UsageModal.tsx 31-47 filled in and submitted
RecordUsage ==
  /\ Screen = "inventoryDashboard"
  /\ selectedLocation # "all"
  /\ \E k \in 1..Len(displayInventory) : \E qty \in UsageQuantities :
       LET item == displayInventory[k]
       IN  IF UsageModalCheck(qty, item) # "ok"
             THEN /\ lastOp' = Refused("usage", qty > item.quantity, FALSE)
                  /\ UNCHANGED << memVars, sessionVars, notifiedIds, alerts, storeVars, idVars,
                                  deducted, touched, nDeleted, settled, pastAlerts, asyncVars, preQty, pathPre, noSource >>
             ELSE /\ LogSize < MaxTx
                  /\ Commit(DailyLogCall(Start, inventory, selectedLocation, "usage", item.id, qty))
                  /\ lastOp' = Done("usage", qty > item.quantity, FALSE)
                  /\ preQty' = KeepPre({})
                  /\ pathPre' = PathKeep({})
                  /\ touched' = touched \cup {item.nameEn}
                  /\ UNCHANGED << deducted, nDeleted, settled, pastAlerts, asyncVars, noSource >>

\* history: the record of a call of handleDailyLog that found its item
DailyLogged(type, itemId, quantity) ==
  [kind |-> "log", ok |-> TRUE, over |-> FALSE, mixed |-> FALSE,
   type |-> type, itemId |-> itemId, quantity |-> quantity]

\* handleDailyLog called with a type, an item id and a quantity: the handler
\* looks at the session and the item itself (App.tsx 813-817)
handleDailyLog ==
  /\ currentUser # NoUser
  /\ selectedLocation \notin {"none", "all"}
  /\ LogSize < MaxTx
  /\ \E type \in {"usage", "receive"} : \E quantity \in 1..MaxQty :
     \E itemId \in { i.id : i \in Range(displayInventory) } \cup {UnknownId} :
       LET found == \E i \in Range(displayInventory) : i.id = itemId
       IN  /\ Commit(DailyLogCall(Start, inventory, selectedLocation, type, itemId, quantity))
           /\ lastOp' = IF found THEN DailyLogged(type, itemId, quantity) ELSE NoOp
           /\ touched' = touched \cup { i.nameEn : i \in { j \in Range(displayInventory) : j.id = itemId } }
  /\ preQty' = KeepPre({})
  /\ pathPre' = PathKeep({})
  /\ UNCHANGED << deducted, nDeleted, settled, pastAlerts, asyncVars, noSource >>

\* the validation that stops at the first entry
ValidateLogEntries_FirstOnly(logEntries, items) ==
  LET entry == Head(logEntries)
      idx == FindIndex(items, LAMBDA i : i.id = entry.itemId)
  IN  IF idx = 0 THEN "ok"
      ELSE IF entry.received < 0 \/ entry.used < 0 THEN "invalidNumber"
      ELSE IF entry.used > items[idx].quantity + entry.received THEN "insufficientStock"
      ELSE "ok"

\* MammalEmployeeDashboard.tsx 80-97: the first entry that fails decides the message
RECURSIVE ValidateLogEntries(_, _)
ValidateLogEntries(logEntries, items) ==
  IF logEntries = << >> THEN "ok"
  ELSE LET entry == Head(logEntries)
           idx == FindIndex(items, LAMBDA i : i.id = entry.itemId)
       IN  IF idx = 0 THEN ValidateLogEntries(Tail(logEntries), items)
           ELSE IF entry.received < 0 \/ entry.used < 0 THEN "invalidNumber"
           ELSE IF entry.used > items[idx].quantity + entry.received THEN "insufficientStock"
           ELSE ValidateLogEntries(Tail(logEntries), items)

\* the preparation that leaves the usages out
PrepareLogs_ReceivesOnly(logEntries) ==
  LET rec == SelectSeq(logEntries, LAMBDA e : e.received > 0)
  IN  [k \in 1..Len(rec) |-> [type |-> "receive", itemId |-> rec[k].itemId, quantity |-> rec[k].received]]

\* MammalEmployeeDashboard.tsx 100-118: the receives of all entries, then the usages
PrepareLogs(logEntries) ==
  LET rec == SelectSeq(logEntries, LAMBDA e : e.received > 0)
      use == SelectSeq(logEntries, LAMBDA e : e.used > 0)
  IN  [k \in 1..Len(rec) |-> [type |-> "receive", itemId |-> rec[k].itemId, quantity |-> rec[k].received]]
      \o [k \in 1..Len(use) |-> [type |-> "usage", itemId |-> use[k].itemId, quantity |-> use[k].used]]

\* history: some entry of the batch is invalid
BatchInvalid(logEntries, items) ==
  \E k \in 1..Len(logEntries) : \E i \in Range(items) :
     /\ i.id = logEntries[k].itemId
     /\ \/ logEntries[k].received < 0
        \/ logEntries[k].used < 0
        \/ logEntries[k].used > i.quantity + logEntries[k].received

\* history: some entry of the batch is valid and asks for a change
BatchHasValid(logEntries, items) ==
  \E k \in 1..Len(logEntries) : \E i \in Range(items) :
     /\ i.id = logEntries[k].itemId
     /\ logEntries[k].received >= 0
     /\ logEntries[k].used >= 0
     /\ logEntries[k].used <= i.quantity + logEntries[k].received
     /\ logEntries[k].received + logEntries[k].used > 0

\* history: the record of a log sheet that was carried out
Logged(logEntries, items) ==
  [kind |-> "bulk", ok |-> TRUE, over |-> BatchInvalid(logEntries, items),
   mixed |-> BatchHasValid(logEntries, items), sheet |-> logEntries]

\* what the rows of the log sheet can hold: one entry per item, in the order typed
LogSheets ==
  LET ids == { i.id : i \in Range(InvAt(inventory, "mammal")) }
  IN  { sheet \in UNION { [1..n -> [itemId : ids, received : -1..1, used : -1..MaxQty]] : n \in 1..MaxList } :
          \A a, b \in 1..Len(sheet) : a # b => sheet[a].itemId # sheet[b].itemId }

\* the save button of the daily log sheet: MammalEmployeeDashboard.tsx 76-129
\* (handleSubmitAll) -> handleBulkLog
SubmitAll ==
  /\ Screen = "mammalDashboard"
  /\ \E logEntries \in LogSheets :
       LET items == InvAt(inventory, "mammal")
           logs == PrepareLogs(logEntries)
       IN  IF ValidateLogEntries(logEntries, items) # "ok" \/ logs = << >>
             THEN /\ lastOp' = Refused("bulk", BatchInvalid(logEntries, items),
                                            BatchHasValid(logEntries, items))
                  /\ UNCHANGED << memVars, sessionVars, notifiedIds, alerts, storeVars, idVars,
                                  deducted, touched, nDeleted, settled, pastAlerts, asyncVars, preQty, pathPre, noSource >>
             ELSE /\ LogSize + Len(logs) <= MaxTx
                  /\ Commit(BulkLogCall(Start, inventory, selectedLocation, logs))
                  /\ lastOp' = Logged(logEntries, items)
                  /\ preQty' = KeepPre({})
                  /\ pathPre' = PathKeep({})
                  /\ touched' = touched \cup { i.nameEn : i \in { j \in Range(items) :
                                                  \E k \in 1..Len(logs) : logs[k].itemId = j.id } }
                  /\ UNCHANGED << deducted, nDeleted, settled, pastAlerts, asyncVars, noSource >>

\* the delete button of an item (dashboard of a location, or the admin's
\* inventory tab) -> handleDeleteItem, App.tsx 515-523
DeleteItem ==
  /\ nDeleted < MaxDeleted
  /\ \E locationId \in Locations : \E k \in 1..Len(inventory[locationId]) :
       /\ \/ Screen = "inventoryDashboard" /\ locationId = selectedLocation
          \/ Screen = "admin"
       /\ LET item == inventory[locationId][k]
          IN  /\ inventory' = [inventory EXCEPT ![locationId] = SelectSeq(@, LAMBDA i : i.id # item.id)]
              /\ dbItems' = SelectSeq(dbItems, LAMBDA r : r.id # item.id)
              /\ touched' = touched \cup {item.nameEn}
              /\ preQty' = [id \in { i \in StillTracked({}) :
                                      LET t == TxById(transactions, i)
                                      IN  ~(t.fromLocation = locationId /\ NameMatch(item, t)) }
                             |-> preQty[id]]
              /\ pathPre' = [id \in { i \in DOMAIN PathKeep({}) :
                                       LET t == TxById(transactions, i)
                                       IN  ~(locationId \in {t.fromLocation, t.toLocation}
                                             /\ NameMatch(item, t)) }
                              |-> pathPre[id]]
  /\ nDeleted' = nDeleted + 1
  /\ lastOp' = NoOp
  /\ UNCHANGED << transactions, sessionVars, notifiedIds, alerts, dbTxs, idVars, deducted, noSource,
                  pastAlerts, settled, asyncVars >>

\* App.tsx 91-182, fetchData(true) as the realtime subscription (184-220) calls
\* it, with every query succeeding and a store that holds items
FetchData ==
  /\ Len(dbItems) > 0
  /\ inventory' = RowsToInventory(dbItems)
  /\ transactions' = [k \in 1..Len(dbTxs) |-> RowToTx(dbTxs[k])]
  /\ LET eff == NotificationEffect(transactions', currentUser, selectedLocation, notifiedIds, alerts)
     IN  /\ notifiedIds' = eff[1]
         /\ alerts' = eff[2]
  /\ lastOp' = MkOp("refresh", TRUE, FALSE, FALSE)
  /\ preQty' = [id \in { i \in DOMAIN preQty : \E t \in Range(transactions') : t.id = i } |-> preQty[id]]
  /\ pathPre' = [id \in { i \in DOMAIN pathPre : \E t \in Range(transactions') : t.id = i } |-> pathPre[id]]
  /\ UNCHANGED << sessionVars, storeVars, idVars, deducted, touched, nDeleted, settled, pastAlerts, asyncVars, noSource >>

\* ------------------------------------------------- calls in flight
\* The handlers once more, with the store answering later: a handler call
\* applies its setState updaters, then issues its persistence calls, and the
\* store carries the outstanding calls out one at a time, in any order.
MaxJobs == 1

NoTx == [id |-> << "tmp", 0 >>]

\* one handler call in flight. phase: queued (called by a forEach that has not
\* reached it), applied (setState done, nothing issued), issued (first calls
\* outstanding), awaited (handleTransfer after `await Promise.all`), inserting
\* (the insert outstanding), inserted (the insert acknowledged, `data` not yet
\* mapped); arg: the transaction handed in; new: the optimistic transactions;
\* writes: the quantity updates it computed; calls: calls not yet issued; out:
\* calls outstanding; data: the rows the insert returned
Job(op, phase, arg, new, rendered, writes, calls) ==
  [op |-> op, phase |-> phase, arg |-> arg, new |-> new, rendered |-> rendered,
   writes |-> writes, calls |-> calls, out |-> << >>, data |-> << >>]

\* a handler is between its call and its first await: nothing else runs
Sync == \E j \in 1..Len(inFlight) : inFlight[j].phase \in {"queued", "applied"}

\* the persistence calls of the handler call collected in st
CallsOf(st) ==
  [k \in 1..Len(st.writes) |-> << "qty", st.writes[k] >>]
  \o [k \in 1..Len(st.itemInserts) |-> << "item", st.itemInserts[k] >>]
  \o [k \in 1..Len(st.txUpdates) |-> << "status", st.txUpdates[k] >>]

\* the transactions whose insert is still to come
ToInsert ==
  SumSeq([j \in 1..Len(inFlight) |->
            IF inFlight[j].op = "transfer" /\ inFlight[j].phase \in {"applied", "issued", "awaited", "inserting"}
              THEN Len(inFlight[j].new) ELSE 0])

\* the in-memory state after the updaters of a handler call, as Commit sets it
Remember(inv, txs, tmp) ==
  LET eff == NotificationEffect(txs, currentUser, selectedLocation, notifiedIds, alerts)
  IN  /\ inventory' = inv
      /\ transactions' = txs
      /\ notifiedIds' = eff[1]
      /\ alerts' = eff[2]
      /\ nextTmp' = tmp

RemoveAt(s, j) == SubSeq(s, 1, j - 1) \o SubSeq(s, j + 1, Len(s))

\* the user of the runs with calls in flight: the warehouse manager, who manages
\* the warehouse and the production site and requests from the branches
AsyncUsers == { u \in Users : u.role = "warehouse_manager" }

\* the user moves between the locations while no call is in flight
AsyncSelectLocation ==
  /\ inFlight = << >>
  /\ \E loc \in Locations \cup {"all"} : SelectLocation(loc)

AsyncBack ==
  /\ inFlight = << >>
  /\ Back

\* the transfer button: App.tsx 550-602, handleTransfer up to its backend calls,
\* with a destination picked from the form's list (TransferModal.tsx 243)
AsyncTransfer ==
  /\ Screen = "inventoryDashboard"
  /\ selectedLocation # "all"
  /\ ~Sync
  /\ Len(inFlight) < MaxJobs
  /\ \E list \in TransferLists : \E toLocation \in Locations \ {selectedLocation} :
       LET fromLocation == selectedLocation
           mgr == isManagerOfSource(currentUser, fromLocation)
           loop == TransferLoop(list, InvAt(inventory, fromLocation), << >>, currentUser,
                                fromLocation, toLocation, nextGrp, nextTmp)
           n == Len(loop.txs)
           writes == SelectSeq(TransferWrites(list, inventory, fromLocation), LAMBDA w : w # << >>)
       IN  /\ TransferModalCheck(list, toLocation, displayInventory) = "ok"
           /\ Len(transactions) + Len(list) <= MaxTx
           /\ Len(dbTxs) + ToInsert + Len(list) <= MaxTx
           /\ Remember(IF mgr THEN [inventory EXCEPT ![fromLocation] = loop.usi] ELSE inventory,
                       loop.txs \o transactions, nextTmp + n)
           /\ nextGrp' = nextGrp + 1
           /\ inFlight' = Append(inFlight,
                 Job("transfer", "applied", NoTx, loop.txs, << >>,
                     IF mgr THEN writes ELSE << >>,
                     IF mgr THEN [k \in 1..Len(writes) |-> << "qty", writes[k] >>] ELSE << >>))
  /\ UNCHANGED << sessionVars, storeVars, nextDb, histVars, peer >>

\* the confirm button of an outgoing approval: App.tsx 667-682
AsyncConfirm ==
  /\ Screen = "inventoryDashboard"
  /\ ~Sync
  /\ Len(inFlight) < MaxJobs
  /\ \E k \in 1..Len(outgoingApprovals) :
       LET transaction == outgoingApprovals[k]
           st == ConfirmSourceCall(Start, inventory, transaction)
       IN  /\ Remember(st.inv, st.txs, st.tmp)
           /\ inFlight' = Append(inFlight,
                 Job("confirm", "applied", transaction, << >>, << >>, st.writes, CallsOf(st)))
  /\ UNCHANGED << sessionVars, storeVars, nextDb, nextGrp, histVars, peer >>

\* the accept button of an incoming group: handleBulkAccept calls
\* handleReceiveTransfer for the first transaction (App.tsx 695-728), the
\* other calls of the forEach wait for it to reach its await
AsyncAccept ==
  /\ Screen = "inventoryDashboard"
  /\ ~Sync
  /\ \E groupId \in IncomingGroupIds :
       LET group == IncomingGroup(groupId)
           st == ReceiveCall(Start, inventory, group[1])
       IN  /\ Len(inFlight) < MaxJobs
           /\ settled' = Settle({group[1].id}, 1, 0)
           /\ Remember(st.inv, st.txs, st.tmp)
           /\ inFlight' = Append(inFlight,
                             Job("receive", "applied", group[1], << >>, << >>, st.writes, CallsOf(st)))
                          \o [k \in 1..(Len(group) - 1) |->
                                Job("receive", "queued", group[k + 1], << >>, inventory, << >>, << >>)]
  /\ UNCHANGED << sessionVars, storeVars, nextDb, nextGrp, pastVars, peer >>

\* the next call of the forEach: App.tsx 695-728 with the inventory its render
\* closed over
StartCall ==
  /\ \A j \in 1..Len(inFlight) : inFlight[j].phase # "applied"
  /\ \E j \in 1..Len(inFlight) :
       /\ inFlight[j].phase = "queued"
       /\ \A i \in 1..(j - 1) : inFlight[i].phase # "queued"
       /\ LET st == ReceiveCall(Start, inFlight[j].rendered, inFlight[j].arg)
          IN  /\ Remember(st.inv, st.txs, st.tmp)
              /\ settled' = Settle({inFlight[j].arg.id}, 1, 0)
              /\ inFlight' = [inFlight EXCEPT
                                ![j] = Job("receive", "applied", @.arg, << >>, << >>, st.writes, CallsOf(st))]
  /\ UNCHANGED << sessionVars, storeVars, nextDb, nextGrp, pastVars, peer >>

\* a handler call reaches its backend part and issues its first calls:
\* App.tsx 608-618 (or 636 for a requester who is no manager), 685-692, 730-748
IssueCalls ==
  /\ \E j \in 1..Len(inFlight) :
       /\ inFlight[j].phase = "applied"
       /\ inFlight' = [inFlight EXCEPT
                         ![j] = IF inFlight[j].calls = << >>
                                  THEN [@ EXCEPT !.phase = "inserting",
                                                 !.out = << << "txins", inFlight[j].new >> >>]
                                  ELSE [@ EXCEPT !.phase = "issued", !.out = inFlight[j].calls,
                                                 !.calls = << >>]]
  /\ UNCHANGED << memVars, sessionVars, notifiedIds, alerts, storeVars, idVars, histVars, peer >>

\* the store carries out one outstanding call
StoreApply ==
  /\ \E j \in 1..Len(inFlight) : \E c \in 1..Len(inFlight[j].out) :
       LET job == inFlight[j]
           call == job.out[c]
           rest == RemoveAt(job.out, c)
           rows == IF call[1] = "txins" THEN InsertTxRows(call[2], nextDb) ELSE << >>
       IN  /\ dbItems' = IF call[1] = "qty" THEN DbSetQuantity(dbItems, call[2][1], call[2][2])
                         ELSE IF call[1] = "item"
                           THEN Append(dbItems, [call[2] EXCEPT !.id = << "db", nextDb >>])
                         ELSE dbItems
           /\ dbTxs' = IF call[1] = "status" THEN ApplyTxUpdates(dbTxs, << call[2] >>)
                       ELSE IF call[1] = "txins" THEN rows \o dbTxs
                       ELSE dbTxs
           /\ nextDb' = IF call[1] = "item" THEN nextDb + 1
                        ELSE IF call[1] = "txins" THEN nextDb + Len(rows)
                        ELSE nextDb
           /\ inFlight' = IF rest # << >> THEN [inFlight EXCEPT ![j].out = rest]
                          ELSE IF job.op # "transfer" THEN RemoveAt(inFlight, j)
                          ELSE IF job.phase = "issued"
                            THEN [inFlight EXCEPT ![j].out = << >>, ![j].phase = "awaited"]
                          ELSE [inFlight EXCEPT ![j].out = << >>, ![j].phase = "inserted", ![j].data = rows]
  /\ UNCHANGED << memVars, sessionVars, notifiedIds, alerts, nextTmp, nextGrp, histVars, peer >>

\* handleTransfer after `await Promise.all(inventoryUpdates)`: App.tsx 621-636
InsertTransactions ==
  /\ ~Sync
  /\ \E j \in 1..Len(inFlight) :
       /\ inFlight[j].phase = "awaited"
       /\ inFlight' = [inFlight EXCEPT ![j].phase = "inserting",
                                       ![j].out = << << "txins", inFlight[j].new >> >>]
  /\ UNCHANGED << memVars, sessionVars, notifiedIds, alerts, storeVars, idVars, histVars, peer >>

\* history: the record of an acknowledged insert: its group, how many rows it
\* returned and how many optimistic transactions of the group were waiting
Acknowledged(job) ==
  [kind |-> "ack", ok |-> TRUE, over |-> FALSE, mixed |-> FALSE,
   grp |-> job.new[1].transferGroupId, rows |-> Len(job.data),
   waiting |-> Cardinality({ k \in 1..Len(transactions) :
                               /\ transactions[k].transferGroupId = job.new[1].transferGroupId
                               /\ IsTemp(transactions[k].id) })]

\* handleTransfer after the insert's answer: App.tsx 638-656
MapIds ==
  /\ ~Sync
  /\ \E j \in 1..Len(inFlight) :
       /\ inFlight[j].phase = "inserted"
       /\ Remember(inventory, MapRealIds(transactions, inFlight[j].data), nextTmp)
       /\ inFlight' = RemoveAt(inFlight, j)
       /\ lastOp' = Acknowledged(inFlight[j])
  /\ UNCHANGED << sessionVars, storeVars, nextDb, nextGrp, deducted, touched, nDeleted, settled, pastAlerts, preQty,
                  pathPre, noSource, peer >>

\* fetchData(true) of the realtime subscription, between two handler runs, when
\* the store holds something else than this client: App.tsx 91-182
AsyncFetchData ==
  /\ ~Sync
  /\ Len(dbItems) > 0
  /\ Remember(RowsToInventory(dbItems), [k \in 1..Len(dbTxs) |-> RowToTx(dbTxs[k])], nextTmp)
  /\ inventory' # inventory \/ transactions' # transactions
  /\ UNCHANGED << sessionVars, storeVars, nextDb, nextGrp, histVars, asyncVars >>

\* the second client's fetchData: App.tsx 91-182 on its own state
PeerFetchData ==
  /\ Len(dbItems) > 0
  /\ peer' = [inv |-> RowsToInventory(dbItems),
              txs |-> [k \in 1..Len(dbTxs) |-> RowToTx(dbTxs[k])]]
  /\ peer' # peer
  /\ UNCHANGED << memVars, sessionVars, notifiedIds, alerts, storeVars, idVars, histVars, inFlight >>

\* the store that leaves the quantity updates out
StoreAfter_NoQuantity(st) ==
  [items |-> dbItems
             \o [j \in 1..Len(st.itemInserts) |-> [st.itemInserts[j] EXCEPT !.id = << "db", nextDb + j - 1 >>]],
   txs |-> ApplyTxUpdates(dbTxs, st.txUpdates)]

\* what the store holds after the persistence calls collected in st
StoreAfter(st) ==
  [items |-> ApplyWrites(dbItems, st.writes, [k \in 1..Len(st.writes) |-> k], 1)
             \o [j \in 1..Len(st.itemInserts) |-> [st.itemInserts[j] EXCEPT !.id = << "db", nextDb + j - 1 >>]],
   txs |-> ApplyTxUpdates(dbTxs, st.txUpdates)]

\* the second client accepts a transfer it sees as pending_target: App.tsx
\* 695-749 on its own state, its calls carried out at once
PeerReceive ==
  /\ \E k \in 1..Len(peer.txs) :
       LET transaction == peer.txs[k]
           st == ReceiveCall([Start EXCEPT !.inv = peer.inv, !.txs = peer.txs], peer.inv, transaction)
           after == StoreAfter(st)
       IN  /\ transaction.status = "pending_target"
           /\ peer' = [inv |-> st.inv, txs |-> st.txs]
           /\ settled' = Settle({transaction.id}, 1, 0)
           /\ nextTmp' = st.tmp
           /\ dbItems' = after.items
           /\ dbTxs' = after.txs
           /\ nextDb' = nextDb + Len(st.itemInserts)
  /\ UNCHANGED << memVars, sessionVars, notifiedIds, alerts, nextGrp, pastVars, inFlight >>

\* ------------------------------------------------- persistence failures
\* A persistence call of the client library fails in one of two ways: its
\* promise resolves with { error } (the way a refused request is reported), or
\* it rejects, which is what the try/catch of App.tsx 606-663 sees.
FailureModes == {"error", "throw"}

\* history: the record of a transfer submission one of whose calls failed
Failed(call, mode) ==
  [kind |-> "failed", ok |-> FALSE, over |-> FALSE, mixed |-> FALSE, call |-> call, mode |-> mode]

\* fetchData's view of the store: App.tsx 127-172
StoreView(items, txs) ==
  [inv |-> RowsToInventory(items), txs |-> [k \in 1..Len(txs) |-> RowToTx(txs[k])]]

\* App.tsx 550-665 with one persistence call failing: the quantity update of
\* entry f (609-618, its result is not looked at) or the insert (636-657, an
\* { error } skips the id mapping); a rejected promise reaches the catch of
\* 658-663 and fetchData(true).  The other updates of the Promise.all were
\* issued with the failing one and are carried out.  No more than MaxTx
\* submissions are followed.
TransferFails ==
  /\ Screen = "inventoryDashboard"
  /\ selectedLocation # "all"
  /\ nextGrp <= MaxTx
  /\ \E items \in TransferLists : \E toLocation \in Locations :
       LET fromLocation == selectedLocation
           mgr == isManagerOfSource(currentUser, fromLocation)
           loop == TransferLoop(items, InvAt(inventory, fromLocation), << >>, currentUser,
                                fromLocation, toLocation, nextGrp, nextTmp)
           newTransactions == loop.txs
           n == Len(newTransactions)
           inv1 == IF mgr THEN [inventory EXCEPT ![fromLocation] = loop.usi] ELSE inventory
           txs1 == newTransactions \o transactions
           eff1 == NotificationEffect(txs1, currentUser, selectedLocation, notifiedIds, alerts)
           writes == TransferWrites(items, inventory, fromLocation)
       IN  /\ LogSize + Len(items) <= MaxTx
           /\ TransferModalCheck(items, toLocation, displayInventory) = "ok"
           /\ n > 0
           /\ \E call \in {"update", "insert"} : \E mode \in FailureModes : \E f \in 1..MaxList :
                LET sent == IF ~mgr THEN << >>
                            ELSE IF call = "update" THEN [writes EXCEPT ![f] = << >>]
                            ELSE writes
                    inserted == call = "update" /\ mode = "error"
                    data == IF inserted THEN InsertTxRows(newTransactions, nextDb) ELSE << >>
                    resync == mode = "throw"
                IN  /\ call = "update" => mgr /\ f \in 1..Len(writes) /\ writes[f] # << >>
                    /\ call = "insert" => f = 1
                    /\ \E p \in Permutations(1..Len(sent)) : dbItems' = ApplyWrites(dbItems, sent, p, 1)
                    /\ dbTxs' = data \o dbTxs
                    /\ nextDb' = nextDb + Len(data)
                    /\ LET view == StoreView(dbItems', dbTxs')
                           txs2 == IF resync THEN view.txs ELSE MapRealIds(txs1, data)
                           eff2 == NotificationEffect(txs2, currentUser, selectedLocation, eff1[1], eff1[2])
                       IN  /\ inventory' = IF resync THEN view.inv ELSE inv1
                           /\ transactions' = txs2
                           /\ notifiedIds' = eff2[1]
                           /\ alerts' = eff2[2]
                    /\ lastOp' = Failed(call, mode)
           /\ nextTmp' = nextTmp + n
           /\ nextGrp' = nextGrp + 1
  /\ preQty' = [id \in {} |-> 0]
  /\ pathPre' = [id \in {} |-> 0]
  /\ UNCHANGED << sessionVars, deducted, touched, nDeleted, settled, pastAlerts, noSource, asyncVars >>

\* ------------------------------------------------------------------ Init
\* the state after the first fetchData, nobody logged in
Init ==
  /\ dbItems = SeedItems
  /\ dbTxs = << >>
  /\ inventory = RowsToInventory(SeedItems)
  /\ transactions = << >>
  /\ currentUser = NoUser
  /\ selectedLocation = "none"
  /\ notifiedIds = {}
  /\ alerts = [id \in {} |-> 0]
  /\ nextTmp = 1
  /\ nextDb = Len(SeedItems) + 1
  /\ nextGrp = 1
  /\ lastOp = NoOp
  /\ deducted = [id \in {} |-> 0]
  /\ touched = {}
  /\ nDeleted = 0
  /\ noSource = {}
  /\ pastAlerts = {}
  /\ settled = [id \in {} |-> 0]
  /\ preQty = [id \in {} |-> 0]
  /\ pathPre = [id \in {} |-> 0]
  /\ inFlight = << >>
  /\ peer = [inv |-> RowsToInventory(SeedItems), txs |-> << >>]

Next ==
  \/ \E u \in Users : handleLogin(u)
  \/ handleLogout
  \/ \E loc \in Locations \cup {"all"} : SelectLocation(loc)
  \/ Back
  \/ SubmitTransfer
  \/ ConfirmOutbound
  \/ BulkAccept
  \/ Reject
  \/ RecordUsage
  \/ SubmitAll

Spec == Init /\ [][Next]_vars

\* the transfer lifecycle with item management: an item may be deleted
NextItems ==
  \/ \E u \in Users : handleLogin(u)
  \/ handleLogout
  \/ \E loc \in Locations \cup {"all"} : SelectLocation(loc)
  \/ Back
  \/ SubmitTransfer
  \/ ConfirmOutbound
  \/ BulkAccept
  \/ Reject
  \/ DeleteItem

SpecItems == Init /\ [][NextItems]_vars

\* the transfer lifecycle with the refreshes of the realtime subscription
NextRefresh ==
  \/ \E u \in Users : handleLogin(u)
  \/ handleLogout
  \/ \E loc \in Locations \cup {"all"} : SelectLocation(loc)
  \/ Back
  \/ SubmitTransfer
  \/ ConfirmOutbound
  \/ BulkAccept
  \/ Reject
  \/ FetchData

SpecRefresh == Init /\ [][NextRefresh]_vars

\* the transfer lifecycle with the rejection called on any transfer
NextHandlers ==
  \/ \E u \in Users : handleLogin(u)
  \/ handleLogout
  \/ \E loc \in Locations \cup {"all"} : SelectLocation(loc)
  \/ Back
  \/ SubmitTransfer
  \/ ConfirmOutbound
  \/ handleRejectTransfer

SpecHandlers == Init /\ [][NextHandlers]_vars

\* the transfer lifecycle with the store answering later
NextAsync ==
  \/ \E u \in AsyncUsers : handleLogin(u)
  \/ AsyncSelectLocation
  \/ AsyncBack
  \/ AsyncTransfer
  \/ AsyncConfirm
  \/ AsyncAccept
  \/ StartCall
  \/ IssueCalls
  \/ StoreApply
  \/ InsertTransactions
  \/ MapIds
  \/ AsyncFetchData

SpecAsync == Init /\ [][NextAsync]_vars

\* two clients of one store: this one with the store answering later, and a
\* second one that fetches and accepts
NextRace ==
  \/ \E u \in AsyncUsers : handleLogin(u)
  \/ AsyncSelectLocation
  \/ AsyncBack
  \/ AsyncTransfer
  \/ AsyncAccept
  \/ StartCall
  \/ IssueCalls
  \/ StoreApply
  \/ InsertTransactions
  \/ MapIds
  \/ PeerFetchData
  \/ PeerReceive

SpecRace == Init /\ [][NextRace]_vars

\* the transfer submissions with a persistence call that may fail
NextFailure ==
  \/ \E u \in Users : handleLogin(u)
  \/ handleLogout
  \/ \E loc \in Locations \cup {"all"} : SelectLocation(loc)
  \/ Back
  \/ TransferFails

SpecFailure == Init /\ [][NextFailure]_vars

\* the daily log called by hand and from the log sheet, with refreshes
NextDailyLog ==
  \/ \E u \in Users : handleLogin(u)
  \/ handleLogout
  \/ \E loc \in Locations \cup {"all"} : SelectLocation(loc)
  \/ Back
  \/ handleDailyLog
  \/ SubmitAll
  \/ FetchData

SpecDailyLog == Init /\ [][NextDailyLog]_vars

\* the transfers over several sessions
NextSessions ==
  \/ \E u \in Users : handleLogin(u)
  \/ handleLogoutNoted
  \/ \E loc \in Locations \cup {"all"} : SelectLocation(loc)
  \/ Back
  \/ SubmitTransfer
  \/ ConfirmOutbound
  \/ BulkAccept

SpecSessions == Init /\ [][NextSessions]_vars

\* the transfer lifecycle with the earlier definition of the transfer form
NextUnchecked ==
  \/ \E u \in Users : handleLogin(u)
  \/ handleLogout
  \/ \E loc \in Locations \cup {"all"} : SelectLocation(loc)
  \/ Back
  \/ SubmitTransferUnchecked
  \/ BulkAccept

SpecUnchecked == Init /\ [][NextUnchecked]_vars

\* ================================================================ claims
AllItems(inv) == UNION { Range(inv[loc]) : loc \in DOMAIN inv }

Transfers(txs) == { t \in Range(txs) : t.type = "transfer" }

\* C1: after any sequence of core operations the quantity of every inventory
\* item at every location is >= 0
C1_QuantityNeverNegative == \A i \in AllItems(inventory) : i.quantity >= 0

\* what all locations hold of the item named X
LocationTotal(inv, X) ==
  LET locs == CHOOSE q \in [1..Cardinality(DOMAIN inv) -> DOMAIN inv] :
                \A l \in DOMAIN inv : \E k \in DOMAIN q : q[k] = l
  IN  SumSeq([k \in DOMAIN locs |->
                SumSeq([j \in 1..Len(inv[locs[k]]) |->
                          IF inv[locs[k]][j].nameEn = X THEN inv[locs[k]][j].quantity ELSE 0])])

\* what the transfers of X that are pending_target carry
PendingTargetTotal(txs, X) ==
  SumSeq([k \in 1..Len(txs) |->
            IF txs[k].type = "transfer" /\ txs[k].status = "pending_target" /\ txs[k].itemNameEn = X
              THEN txs[k].quantity ELSE 0])

InitialTotal(X) ==
  SumSeq([k \in 1..Len(SeedItems) |-> IF SeedItems[k].name_en = X THEN SeedItems[k].quantity ELSE 0])

\* C2: for an item X that no usage, receive-log or delete touched, what the
\* locations hold of X plus what X's pending_target transfers carry is the
\* initial system-wide total of X
C2_Conservation ==
  \A X \in ItemNames \ touched :
     LocationTotal(inventory, X) + PendingTargetTotal(transactions, X) = InitialTotal(X)

\* an untouched item is in transit, and was partly received, while another item was used
C2_Witness ==
  /\ touched # {}
  /\ \E X \in ItemNames \ touched :
       /\ PendingTargetTotal(transactions, X) > 0
       /\ LocationTotal(inventory, X) < InitialTotal(X)

\* C3: a transfer submission with an entry that asks for more than its item's
\* stock at the source is refused whole: the step that handles it appends no
\* transaction and changes no quantity, in memory or in the store
C3_OverAskingTransferRefused ==
  [][ lastOp'.kind = "transfer" /\ lastOp'.over
        => /\ ~lastOp'.ok
           /\ UNCHANGED << inventory, transactions, dbItems, dbTxs >> ]_vars

\* a submission with one entry in stock and one over stock was refused
C3_Witness == lastOp.kind = "transfer" /\ ~lastOp.ok /\ lastOp.over /\ lastOp.mixed

C5_RejectRestoresSource ==
  \A id \in DOMAIN preQty :
     \A t \in Transfers(transactions) :
        t.id = id /\ t.status = "rejected" => QtyOf(inventory, t.fromLocation, t) = preQty[id]

\* a transfer between two locations was deducted and then rejected
C5_Witness ==
  \E t \in Transfers(transactions) :
     /\ t.id \in DOMAIN preQty
     /\ t.status = "rejected"
     /\ t.fromLocation # t.toLocation
     /\ preQty[t.id] > 0

\* the transfers of txs2 whose id txs1 does not hold
Created(txs1, txs2) == { t \in Transfers(txs2) : \A u \in Range(txs1) : u.id # t.id }

\* the actor is manager of the source: a branch_manager whose branchCode is the
\* source, a warehouse_manager with source warehouse or mammal, or an admin
ManagerOf(user, source) ==
  CASE user.role = "branch_manager" -> user.branchCode = source
    [] user.role = "warehouse_manager" -> source \in {"warehouse", "mammal"}
    [] user.role = "admin" -> TRUE
    [] OTHER -> FALSE

\* C6: every transaction a transfer submission creates starts pending_target
\* when the actor is manager of the source and pending_source otherwise, never
\* completed, rejected or cancelled
C6_InitialStatus ==
  [][ \A t \in Created(transactions, transactions') :
        t.status = IF ManagerOf(currentUser, t.fromLocation) THEN "pending_target"
                   ELSE "pending_source" ]_vars

\* a warehouse manager's transfer out of a branch waits for the source, next
\* to a transfer that a manager of its source created
C6_Witness ==
  /\ \E t \in Transfers(transactions) : t.status = "pending_source" /\ t.fromLocation = "b1"
  /\ \E t \in Transfers(transactions) : t.status = "pending_target" /\ t.id \in DOMAIN preQty

StatusEdges ==
  { <<"pending_source", "pending_target">>, <<"pending_source", "rejected">>,
    <<"pending_target", "completed">>, <<"pending_target", "rejected">> }

C8_DeductedMatchesStatus ==
  \A t \in Transfers(transactions) :
     /\ t.status = "pending_target" => deducted[t.id] = t.quantity
     /\ t.status = "pending_source" => deducted[t.id] = 0

\* C8 as amended: every pending_target transfer has had exactly its quantity
\* deducted at its fromLocation, unless it was confirmed while the source held
\* no item of its name: then nothing was deducted for it; every pending_source
\* transfer has had nothing deducted
C8_DeductedUnlessNoSource ==
  \A t \in Transfers(transactions) :
     /\ t.status = "pending_target" /\ t.id \notin noSource => deducted[t.id] = t.quantity
     /\ t.status = "pending_target" /\ t.id \in noSource => deducted[t.id] = 0
     /\ t.status = "pending_source" => deducted[t.id] = 0

\* a transfer confirmed after its source item was deleted, next to nothing else
C8_Witness ==
  \E t \in Transfers(transactions) :
     /\ t.status = "pending_target"
     /\ t.id \in noSource
     /\ QtyOf(inventory, t.fromLocation, t) = 0

\* C9: a bulk-log batch with an invalid entry (received < 0, used < 0, used
\* above quantity plus received) is not applied at all: the step that handles
\* it changes no quantity and creates no transaction
C9_InvalidBatchRefused ==
  [][ lastOp'.kind = "bulk" /\ lastOp'.over
        => /\ ~lastOp'.ok
           /\ UNCHANGED << inventory, transactions, dbItems, dbTxs >> ]_vars

\* a batch with an invalid entry and a valid one was refused
C9_Witness == lastOp.kind = "bulk" /\ ~lastOp.ok /\ lastOp.over /\ lastOp.mixed

\* C10: within one session every transaction id is alerted at most once, and a
\* pending_target transaction to the viewer's selected location has been
\* alerted exactly once, whatever refreshes of the log have held it
C10_OneAlertPerId ==
  /\ \A id \in DOMAIN alerts : alerts[id] <= 1
  /\ currentUser # NoUser =>
       \A t \in Range(transactions) :
          t.status = "pending_target" /\ t.toLocation = selectedLocation
            => AlertCount(alerts, t.id) = 1

\* the log was refreshed while it held a transfer already alerted to the viewer
C10_Witness ==
  /\ lastOp.kind = "refresh"
  /\ currentUser # NoUser
  /\ \E t \in Range(transactions) :
        /\ t.status = "pending_target"
        /\ t.toLocation = selectedLocation
        /\ t.id \in notifiedIds
        /\ AlertCount(alerts, t.id) = 1

\* C11: a transfer submission that handleTransfer carries out puts one transfer
\* transaction in front of the log for every entry whose item id the source
\* holds (N transactions for N distinct ids that all exist), all with one
\* transferGroupId and one status; an entry whose id the source does not hold
\* adds nothing and does not stop the others
C11_OneTransactionPerItem ==
  [][ lastOp'.kind = "transfer" /\ lastOp'.ok
        => LET new == Created(transactions, transactions')
               n == lastOp'.found
           IN  /\ Len(transactions') = Len(transactions) + n
               /\ \A k \in 1..Len(transactions) : transactions'[n + k] = transactions[k]
               /\ \A k \in 1..n : transactions'[k] \in new
               /\ lastOp'.distinct => Cardinality(new) = n
               /\ \A t, u \in new : t.transferGroupId = u.transferGroupId /\ t.status = u.status ]_vars

\* a submission of two distinct items of the source was carried out
C11_Witness ==
  /\ lastOp.kind = "transfer" /\ lastOp.ok
  /\ lastOp.asked = 2 /\ lastOp.found = 2 /\ lastOp.distinct

\* a submission naming an item and an unknown id was carried out for the item
C11_SkippedWitness ==
  /\ lastOp.kind = "transfer" /\ lastOp.ok
  /\ lastOp.asked = 2 /\ lastOp.found = 1 /\ lastOp.distinct

\* what location loc holds of the item named X, in memory
MemQty(inv, loc, X) ==
  SumSeq([k \in 1..Len(InvAt(inv, loc)) |->
            IF InvAt(inv, loc)[k].nameEn = X THEN InvAt(inv, loc)[k].quantity ELSE 0])

\* the transfers a step takes from pending_target to completed
Accepted(txs1, txs2) ==
  { t \in Transfers(txs1) :
      t.status = "pending_target" /\ \E u \in Transfers(txs2) : u.id = t.id /\ u.status = "completed" }

\* what the transfers of acc carry of X to loc
Credit(txs, acc, loc, X) ==
  SumSeq([k \in 1..Len(txs) |->
            IF txs[k] \in acc /\ txs[k].toLocation = loc /\ txs[k].itemNameEn = X
              THEN txs[k].quantity ELSE 0])

\* the transfers of acc's group that wait at the viewed location
WaitingInGroup(acc) ==
  { t \in Transfers(transactions) :
      /\ \E a \in acc : a.transferGroupId = t.transferGroupId
      /\ t.status = "pending_target"
      /\ selectedLocation = "all" \/ t.toLocation = selectedLocation }

\* C12: bulkAccept completes every waiting transaction of the group and the
\* inventory holds at the destination, per item, what it held plus the quantity
\* of every accepted transaction (one credit per transaction, in any order),
\* and what it held everywhere else
C12_CreditsInMemory ==
  [][ LET acc == Accepted(transactions, transactions')
      IN  acc # {} =>
            /\ WaitingInGroup(acc) = acc
            /\ \A loc \in Locations : \A X \in ItemNames :
                  MemQty(inventory', loc, X)
                    = MemQty(inventory, loc, X) + Credit(transactions, acc, loc, X) ]_vars

\* a group of two transfers was accepted
C12_Witness ==
  \E t, u \in Transfers(transactions) :
     /\ t.id # u.id
     /\ t.transferGroupId = u.transferGroupId
     /\ t.status = "completed" /\ u.status = "completed"
     /\ t.itemNameEn # u.itemNameEn

\* C13: a transfer on record that is completed, with no other step on its item
\* at its source or at its destination, has left the source with what it held
\* less the transferred quantity and the destination with what it held plus the
\* transferred quantity, in one item of that name when it held none
C13_FullPath ==
  \A id \in DOMAIN pathPre :
     \A t \in Range(transactions) :
        t.id = id /\ t.status = "completed" =>
          /\ QtyOf(inventory, t.fromLocation, t) = pathPre[id].src - t.quantity
          /\ QtyOf(inventory, t.toLocation, t) = pathPre[id].dst + t.quantity
          /\ ~pathPre[id].had =>
                Cardinality({ k \in 1..Len(InvAt(inventory, t.toLocation)) :
                               NameMatch(inventory[t.toLocation][k], t) }) = 1

\* a transfer on record was completed into an item its destination held, and
\* its source holds what it held less the transferred quantity
C13_Witness ==
  \E t \in Range(transactions) :
     /\ t.id \in DOMAIN pathPre
     /\ t.status = "completed"
     /\ pathPre[t.id].had
     /\ QtyOf(inventory, t.fromLocation, t) = pathPre[t.id].src - t.quantity

\* a completed transfer whose destination held no item of its name
C13_NewItemWitness ==
  \E t \in Range(transactions) :
     /\ t.id \in DOMAIN pathPre
     /\ t.status = "completed"
     /\ ~pathPre[t.id].had

\* C14: a step that rejects a transaction waiting for its source's confirmation
\* changes no inventory quantity and creates no item, in memory and in the
\* store; in the log only that transaction changes, to rejected with the reason
C14_RejectBeforeConfirmation ==
  [][ \A k \in 1..Len(transactions) :
         ( /\ transactions[k].status = "pending_source"
           /\ \E u \in Range(transactions') :
                 u.id = transactions[k].id /\ u.status = "rejected" )
         => /\ inventory' = inventory
            /\ dbItems' = dbItems
            /\ Len(transactions') = Len(transactions)
            /\ transactions'[k].rejectionReason \in RejectionReasons
            /\ transactions' = [transactions EXCEPT
                                  ![k].status = "rejected",
                                  ![k].rejectionReason = transactions'[k].rejectionReason] ]_vars

\* a transaction was rejected while it waited for its source's confirmation,
\* at a source that holds an item of its name
C14_Witness ==
  /\ lastOp.kind = "reject"
  /\ lastOp.was = "pending_source"
  /\ \E t \in Range(transactions) :
        /\ t.id = lastOp.id
        /\ t.status = "rejected"
        /\ t.rejectionReason \in RejectionReasons
        /\ \E i \in Range(InvAt(inventory, t.fromLocation)) : NameMatch(i, t)

\* C16: the step that confirms a transaction whose source holds no item of its
\* name leaves every quantity as it was, in memory and in the store, and in the
\* log changes that transaction's status to pending_target and nothing else
C16_ConfirmWithoutSourceItem ==
  [][ \A k \in 1..Len(transactions) :
         (transactions[k].id \in noSource' /\ transactions[k].id \notin noSource)
         => /\ transactions[k].status = "pending_source"
            /\ inventory' = inventory
            /\ dbItems' = dbItems
            /\ transactions' = [transactions EXCEPT ![k].status = "pending_target"]
            /\ \E r \in Range(dbTxs') : r.id = transactions[k].id /\ r.status = "pending_target" ]_vars

\* a transaction confirmed at a source that holds no item at all any more
C16_Witness ==
  \E t \in Range(transactions) :
     /\ t.id \in noSource
     /\ t.status \in {"pending_target", "completed", "rejected"}
     /\ InvAt(inventory, t.fromLocation) = << >>

\* the item receiveTransfer creates for transaction t under the id given
ReceivedItem(id, t) ==
  [id |-> id, nameEn |-> t.itemNameEn, nameAr |-> t.itemNameAr, category |-> "Received",
   quantity |-> t.quantity, unit |-> t.unit, minThreshold |-> 0]

\* C18: a step that receives one pending_target transaction sets it to
\* completed and changes nothing else in the log; in the inventory it either
\* adds the transaction's quantity to the first item of its name at toLocation
\* and changes nothing else, or, when toLocation holds no such item, appends
\* one item of category "Received", minThreshold 0 and the transaction's
\* quantity and unit and changes nothing else; the store gets one new row in
\* the second case and none in the first
C18_ReceiveEffect ==
  [][ \A k \in 1..Len(transactions) :
         ( /\ Len(transactions') = Len(transactions)
           /\ transactions[k].status = "pending_target"
           /\ transactions'[k].status = "completed"
           /\ \A j \in 1..Len(transactions) : j # k => transactions'[j].status = transactions[j].status )
         => LET t == transactions[k]
                B == t.toLocation
                here == InvAt(inventory, B)
                idx == FindIndex(here, LAMBDA i : NameMatch(i, t))
            IN  /\ transactions' = [transactions EXCEPT ![k].status = "completed"]
                /\ IF idx # 0
                     THEN /\ inventory' = [inventory EXCEPT ![B][idx].quantity = @ + t.quantity]
                          /\ Len(dbItems') = Len(dbItems)
                     ELSE /\ Len(inventory'[B]) = Len(here) + 1
                          /\ inventory' = [inventory EXCEPT ![B] =
                                 Append(@, ReceivedItem(inventory'[B][Len(here) + 1].id, t))]
                          /\ Len(dbItems') = Len(dbItems) + 1
                          /\ SubSeq(dbItems', 1, Len(dbItems)) = dbItems
                          /\ LET r == dbItems'[Len(dbItems')]
                             IN  /\ r.location_id = B
                                 /\ RowToItem(r) = ReceivedItem(r.id, t) ]_vars

\* a completed transfer next to the item its receipt created at the destination
C18_Witness ==
  \E t \in Range(transactions) :
     /\ t.type = "transfer" /\ t.status = "completed"
     /\ \E i \in Range(InvAt(inventory, t.toLocation)) :
           i = ReceivedItem(i.id, t) /\ IsTemp(i.id)

\* a completed transfer whose quantity went into an item the destination held
C18_ExistingWitness ==
  \E t \in Range(transactions) :
     /\ t.type = "transfer" /\ t.status = "completed"
     /\ t.id \in DOMAIN pathPre
     /\ pathPre[t.id].had
     /\ QtyOf(inventory, t.toLocation, t) = pathPre[t.id].dst + t.quantity

\* the transactions among txs of the given type for the item named
LogsOf(txs, type, nameEn) ==
  { k \in 1..Len(txs) : txs[k].type = type /\ txs[k].itemNameEn = nameEn }

\* C19: the step that carries out a log sheet leaves every listed item with its
\* quantity plus what was received less what was used, every other item as it
\* was, and puts in front of the log one completed receive transaction for
\* every entry that received something and one completed usage transaction for
\* every entry that used something, of the entry's quantities, and no other
C19_BulkLogEffect ==
  [][ (lastOp'.kind = "bulk" /\ lastOp'.ok)
        => LET sheet == lastOp'.sheet
               items == InvAt(inventory, "mammal")
               nRec == Cardinality({ e \in 1..Len(sheet) : sheet[e].received > 0 })
               nUse == Cardinality({ e \in 1..Len(sheet) : sheet[e].used > 0 })
               new == SubSeq(transactions', 1, nRec + nUse)
           IN  /\ Len(inventory'["mammal"]) = Len(items)
               /\ \A k \in 1..Len(items) :
                     LET on == { e \in 1..Len(sheet) : sheet[e].itemId = items[k].id }
                     IN  inventory'["mammal"][k] =
                           [items[k] EXCEPT !.quantity =
                              IF on = {} THEN @
                              ELSE LET e == CHOOSE x \in on : TRUE
                                   IN  @ + sheet[e].received - sheet[e].used]
               /\ \A loc \in Locations \ {"mammal"} : inventory'[loc] = inventory[loc]
               /\ Len(transactions') = Len(transactions) + nRec + nUse
               /\ SubSeq(transactions', nRec + nUse + 1, Len(transactions')) = transactions
               /\ \A k \in 1..Len(new) : new[k].status = "completed" /\ new[k].type \in {"receive", "usage"}
               /\ \A e \in 1..Len(sheet) : \A i \in Range(items) :
                     i.id = sheet[e].itemId =>
                       /\ Cardinality(LogsOf(new, "receive", i.nameEn)) = IF sheet[e].received > 0 THEN 1 ELSE 0
                       /\ Cardinality(LogsOf(new, "usage", i.nameEn)) = IF sheet[e].used > 0 THEN 1 ELSE 0
                       /\ \A k \in LogsOf(new, "receive", i.nameEn) : new[k].quantity = sheet[e].received
                       /\ \A k \in LogsOf(new, "usage", i.nameEn) : new[k].quantity = sheet[e].used ]_vars

\* a sheet was carried out that received and used the same item
C19_Witness ==
  /\ lastOp.kind = "bulk" /\ lastOp.ok
  /\ \E e \in 1..Len(lastOp.sheet) : lastOp.sheet[e].received > 0 /\ lastOp.sheet[e].used > 0

\* a sheet was carried out that used more than the item held before the receipt
C19_UsedReceivedWitness ==
  /\ lastOp.kind = "bulk" /\ lastOp.ok
  /\ \E e \in 1..Len(lastOp.sheet) : \E i \in Range(InvAt(inventory, "mammal")) :
        /\ i.id = lastOp.sheet[e].itemId
        /\ i.quantity = 0
        /\ lastOp.sheet[e].received > 0
        /\ lastOp.sheet[e].used > lastOp.sheet[e].received

\* the in-memory state shows what the handler call in flight has done: the
\* transactions a transfer created are in the log, the transaction a
\* confirmation or a receipt was called with has left the status it had
Reflects(job) ==
  IF job.op = "transfer"
    THEN \A n \in 1..Len(job.new) :
            \E t \in Range(transactions) :
               /\ t.transferGroupId = job.new[n].transferGroupId
               /\ t.itemNameEn = job.new[n].itemNameEn
               /\ t.quantity = job.new[n].quantity
    ELSE \E t \in Range(transactions) :
            /\ t.transferGroupId = job.arg.transferGroupId
            /\ t.itemNameEn = job.arg.itemNameEn
            /\ t.quantity = job.arg.quantity
            /\ t.status # job.arg.status

\* C17: no persistence call of a handler call is issued before its in-memory
\* change is applied, and the in-memory state shows the operation in every
\* state in which one of its persistence calls is outstanding
C17_MemoryReflectsOutstanding ==
  \A j \in 1..Len(inFlight) :
     /\ inFlight[j].phase \in {"queued"} => inFlight[j].out = << >>
     /\ inFlight[j].out # << >> => Reflects(inFlight[j])

\* a call is outstanding and the log shows its operation
C17_Witness ==
  \E j \in 1..Len(inFlight) : inFlight[j].out # << >> /\ Reflects(inFlight[j])

\* the groups whose insert the store has acknowledged to this client
AckedGroups ==
  { r.transfer_group_id : r \in Range(dbTxs) } \
  { inFlight[j].new[1].transferGroupId :
      j \in { i \in 1..Len(inFlight) : inFlight[i].op = "transfer" } }

C20_RefetchWitness ==
  /\ lastOp.kind = "ack"
  /\ lastOp.rows = 2 /\ lastOp.waiting = 0
  /\ Cardinality({ k \in 1..Len(transactions) : transactions[k].transferGroupId = lastOp.grp }) = 2

\* C15: when the second client accepts a transfer that this client's receipt
\* has credited in the store but not yet completed there, having read the
\* credited destination item and the stale status, the stored quantity of the
\* destination item becomes the quantity before the first receipt plus twice
\* the transferred quantity
C15_DoubleCredit ==
  [][ \A j \in 1..Len(inFlight) : \A k \in 1..Len(peer.txs) :
         LET job == inFlight[j]
             t == peer.txs[k]
         IN  ( /\ job.op = "receive" /\ job.phase = "issued"
               /\ job.writes # << >>
               /\ \A c \in 1..Len(job.out) : job.out[c][1] # "qty"
               /\ \E c \in 1..Len(job.out) : job.out[c][1] = "status"
               /\ t.id = job.arg.id
               /\ t.status = "pending_target"
               /\ Len(peer'.txs) = Len(peer.txs)
               /\ peer'.txs[k].status = "completed"
               /\ \E i \in Range(InvAt(peer.inv, t.toLocation)) :
                     i.id = job.writes[1][1] /\ i.quantity = job.writes[1][2] )
             => \E r \in Range(dbItems') :
                   /\ r.id = job.writes[1][1]
                   /\ r.quantity = (job.writes[1][2] - t.quantity) + 2 * t.quantity ]_vars

\* both clients have accepted the same transfer and the store holds the
\* destination item with two credits
C15_Witness ==
  \E j \in 1..Len(inFlight) : \E t \in Range(peer.txs) :
     LET job == inFlight[j]
     IN  /\ job.op = "receive" /\ job.phase = "issued"
         /\ job.writes # << >>
         /\ t.id = job.arg.id
         /\ t.status = "completed"
         /\ \E u \in Range(transactions) : u.id = t.id /\ u.status = "completed"
         /\ \E r \in Range(dbItems) :
               /\ r.id = job.writes[1][1]
               /\ r.quantity = (job.writes[1][2] - t.quantity) + 2 * t.quantity

\* C21: after a transfer submission one of whose persistence calls failed, the
\* in-memory inventory and transaction log are the store's contents: nothing
\* of the failed submission is in memory that the store does not hold
C21_ResyncAfterFailure ==
  lastOp.kind = "failed" =>
    /\ inventory = StoreView(dbItems, dbTxs).inv
    /\ transactions = StoreView(dbItems, dbTxs).txs

\* the same for the failures that reach the catch: a rejected promise
C21_ResyncAfterRejection ==
  lastOp.kind = "failed" /\ lastOp.mode = "throw" =>
    /\ inventory = StoreView(dbItems, dbTxs).inv
    /\ transactions = StoreView(dbItems, dbTxs).txs

\* the insert of a submission was rejected and memory was read from the store
C21_ThrowWitness ==
  /\ lastOp.kind = "failed" /\ lastOp.call = "insert" /\ lastOp.mode = "throw"
  /\ inventory = StoreView(dbItems, dbTxs).inv
  /\ transactions = StoreView(dbItems, dbTxs).txs

\* the item rejectTransfer recreates for transaction t under the id given
ReturnedItem(id, t) ==
  [id |-> id, nameEn |-> t.itemNameEn, nameAr |-> t.itemNameAr, category |-> "Returned",
   quantity |-> t.quantity, unit |-> t.unit, minThreshold |-> 0]

\* C22: a step that rejects a pending_target transaction whose fromLocation
\* holds no item of its name appends exactly one item to fromLocation, of
\* category "Returned" and the transaction's quantity, changes no other item,
\* sets that transaction to rejected with the given reason and changes nothing
\* else in the log; the store gets one such row
C22_RejectRecreatesItem ==
  [][ \A k \in 1..Len(transactions) :
         ( /\ Len(transactions') = Len(transactions)
           /\ transactions[k].status = "pending_target"
           /\ transactions'[k].status = "rejected"
           /\ ~\E i \in Range(InvAt(inventory, transactions[k].fromLocation)) :
                  NameMatch(i, transactions[k]) )
         => LET t == transactions[k]
                A == t.fromLocation
                here == InvAt(inventory, A)
            IN  /\ Len(inventory'[A]) = Len(here) + 1
                /\ inventory' = [inventory EXCEPT ![A] =
                       Append(@, ReturnedItem(inventory'[A][Len(here) + 1].id, t))]
                /\ transactions'[k].rejectionReason \in RejectionReasons
                /\ transactions' = [transactions EXCEPT
                                      ![k].status = "rejected",
                                      ![k].rejectionReason = transactions'[k].rejectionReason]
                /\ Len(dbItems') = Len(dbItems) + 1
                /\ SubSeq(dbItems', 1, Len(dbItems)) = dbItems
                /\ LET r == dbItems'[Len(dbItems')]
                   IN  /\ r.location_id = A
                       /\ RowToItem(r) = ReturnedItem(r.id, t) ]_vars

\* a rejected transfer next to the item its rejection recreated at the source,
\* the only item of that name there, after the source item was deleted
C22_Witness ==
  /\ nDeleted > 0
  /\ \E t \in Range(transactions) :
        /\ t.type = "transfer" /\ t.status = "rejected"
        /\ t.rejectionReason \in RejectionReasons
        /\ \E i \in Range(InvAt(inventory, t.fromLocation)) : i = ReturnedItem(i.id, t)
        /\ Cardinality({ k \in 1..Len(InvAt(inventory, t.fromLocation)) :
                           NameMatch(inventory[t.fromLocation][k], t) }) = 1

\* C23: no transfer transaction of the log has toLocation equal to fromLocation
C23_DestinationDiffers ==
  \A t \in Transfers(transactions) : t.toLocation # t.fromLocation

\* C24: a logout leaves the set of notified ids empty; between two states of
\* one session no id leaves the set; and in a session every transaction that
\* was alerted in an earlier session and is pending_target at the viewer's
\* selected location has been alerted exactly once in this session
C24_SessionScopedNotified ==
  [][ /\ (currentUser # NoUser /\ currentUser' = NoUser) => notifiedIds' = {}
      /\ (currentUser # NoUser /\ currentUser' # NoUser) => notifiedIds \subseteq notifiedIds'
      /\ currentUser' # NoUser =>
            \A t \in Range(transactions') :
               ( /\ t.id \in pastAlerts'
                 /\ t.status = "pending_target"
                 /\ t.toLocation = selectedLocation' )
               => AlertCount(alerts', t.id) = 1 /\ t.id \in notifiedIds' ]_vars

\* a transfer alerted in a session that has ended waits at the location of
\* the viewer of this session and has been alerted once in it
C24_Witness ==
  /\ currentUser # NoUser
  /\ \E t \in Range(transactions) :
        /\ t.id \in pastAlerts
        /\ t.status = "pending_target"
        /\ t.toLocation = selectedLocation
        /\ AlertCount(alerts, t.id) = 1

\* C25: every usage or receive transaction of the log is completed, a usage
\* from its location to "Consumed", a receive from "External Supplier" to its
\* location; the step in which handleDailyLog logs an entry puts one such
\* transaction of the entry's type and quantity in front of the log, at the
\* active location, lowers (usage) or raises (receive) the quantity of the
\* item by exactly the entry's quantity and changes no other item
C25_DailyLogEffect ==
  [][ /\ \A t \in Range(transactions') :
            t.type \in {"usage", "receive"} =>
              /\ t.status = "completed"
              /\ t.type = "usage" => t.fromLocation \in Locations /\ t.toLocation = "Consumed"
              /\ t.type = "receive" => t.fromLocation = "External Supplier" /\ t.toLocation \in Locations
      /\ lastOp'.kind = "log" =>
            LET here == InvAt(inventory, selectedLocation)
                idx == FindIndex(here, LAMBDA i : i.id = lastOp'.itemId)
                q == lastOp'.quantity
                new == transactions'[1]
            IN  /\ idx # 0
                /\ inventory' = [inventory EXCEPT ![selectedLocation][idx].quantity =
                                   IF lastOp'.type = "usage" THEN @ - q ELSE @ + q]
                /\ transactions' = << new >> \o transactions
                /\ new.type = lastOp'.type
                /\ new.status = "completed"
                /\ new.quantity = q
                /\ new.itemNameEn = here[idx].nameEn
                /\ new.fromLocation = IF lastOp'.type = "usage" THEN selectedLocation ELSE "External Supplier"
                /\ new.toLocation = IF lastOp'.type = "usage" THEN "Consumed" ELSE selectedLocation ]_vars

\* a receive entry was logged at a location that holds other items
C25_Witness ==
  /\ lastOp.kind = "log" /\ lastOp.type = "receive"
  /\ Len(InvAt(inventory, selectedLocation)) > 1
  /\ transactions[1].type = "receive"

\* a usage entry was logged
C25_UsageWitness ==
  /\ lastOp.kind = "log" /\ lastOp.type = "usage"
  /\ transactions[1].toLocation = "Consumed"

\* what the store holds at location loc of the item named X
StoreQty(rows, loc, X) ==
  SumSeq([k \in 1..Len(rows) |->
            IF rows[k].location_id = loc /\ rows[k].name_en = X THEN rows[k].quantity ELSE 0])

\* C26: between two gestures, when every persistence call of the gestures so
\* far has been carried out, the store holds of every item at every location
\* the quantity the memory holds, and every in-memory item that carries a
\* store id has its row with its quantity
C26_StoreEqualsMemory ==
  /\ \A loc \in Locations : \A X \in ItemNames :
        StoreQty(dbItems, loc, X) = MemQty(inventory, loc, X)
  /\ \A i \in AllItems(inventory) : \A r \in Range(dbItems) :
        r.id = i.id => r.quantity = i.quantity

\* C27: over any sequence of receive and reject invocations on one transfer,
\* by this client and by a second one and with stale copies of the transfer,
\* its quantity is credited to the destination at most once, restocked to the
\* source at most once, and never both.
C27_SettledOnce ==
  \A id \in DOMAIN settled :
    /\ settled[id].credits <= 1
    /\ settled[id].restocks <= 1
    /\ settled[id].credits + settled[id].restocks <= 1

\* the alerts handed out in the session, over all ids
RECURSIVE AlertTotal(_, _)
AlertTotal(al, ids) ==
  IF ids = {} THEN 0
  ELSE LET id == CHOOSE i \in ids : TRUE
       IN  al[id] + AlertTotal(al, ids \ {id})

\* C28: a transfer is alerted at most once per session, also when its id in
\* memory changes from the temporary id to the store's id while it is
\* pending_target and addressed to the viewed location. Every alert belongs to
\* a transaction of the log and the log loses none, so the session has handed
\* out at most as many alerts as the log has transactions.
C28_AlertedOnceAcrossIds ==
  AlertTotal(alerts, DOMAIN alerts) <= Cardinality({ t.id : t \in Range(transactions) })

\* how often the transaction of id was credited and restocked, in s
SettledOf(s, id) == IF id \in DOMAIN s THEN s[id] ELSE [credits |-> 0, restocks |-> 0]

\* C29: a call of confirmOutbound, receiveTransfer or rejectTransfer changes
\* the status of exactly the one transaction whose id is the id of the
\* transaction it was given, and leaves every other transaction, those of the
\* same transfer group included, with its status and rejectionReason; a group
\* rejected from the incoming list has its first transaction rejected and the
\* rest still pending_target.
C29_OnlyTheMatchingTransaction ==
  [][ Len(transactions') = Len(transactions) =>
        LET changed == { k \in 1..Len(transactions) : transactions'[k] # transactions[k] }
            called == { id \in DOMAIN settled' : settled'[id] # SettledOf(settled, id) }
        IN  /\ \A k \in changed :
                  transactions'[k] = [transactions[k] EXCEPT
                                        !.status = transactions'[k].status,
                                        !.rejectionReason = transactions'[k].rejectionReason]
            \* confirmOutbound
            /\ (\E k \in changed : transactions'[k].status = "pending_target")
                 => /\ Cardinality(changed) = 1
                    /\ \A k \in changed : transactions[k].status = "pending_source"
            \* rejectTransfer, given the first transaction of an incoming group
            /\ (\E k \in changed : transactions'[k].status = "rejected")
                 => /\ Cardinality(changed) = 1
                    /\ \A k \in changed :
                          /\ called = {transactions[k].id}
                          /\ transactions[k] = IncomingGroup(transactions[k].transferGroupId)[1]
            \* receiveTransfer, once for every transaction of an accepted group
            /\ (\E k \in changed : transactions'[k].status = "completed")
                 => /\ { transactions[k].id : k \in changed } = called
                    /\ \A k \in changed : transactions'[k].status = "completed"
                    /\ \A id \in called :
                          settled'[id].credits = SettledOf(settled, id).credits + 1 ]_vars

\* a group of two was rejected from the incoming list: its first transaction
\* is rejected, the second still waits at the destination
C29_Witness ==
  \E j \in 1..Len(transactions) : \E k \in 1..Len(transactions) :
     /\ j < k
     /\ transactions[j].transferGroupId = transactions[k].transferGroupId
     /\ transactions[j].status = "rejected"
     /\ SettledOf(settled, transactions[j].id).restocks = 1
     /\ transactions[k].status = "pending_target"
     /\ transactions[k].toLocation = transactions[j].toLocation

\* C30: bulkAccept of a group acts on the group's transactions that are
\* pending_target and addressed to the viewed location and on no other: a
\* transaction of the group that is pending_source, rejected or completed keeps
\* its record and is not handed to receiveTransfer, and the inventory is
\* credited with the quantities of the accepted transactions only.
C30_OnlyWaitingOfTheGroup ==
  [][ LET acc == Accepted(transactions, transactions')
          rest == { k \in 1..Len(transactions) :
                      /\ transactions[k].type = "transfer"
                      /\ \E a \in acc : a.transferGroupId = transactions[k].transferGroupId
                      /\ \/ transactions[k].status # "pending_target"
                         \/ /\ selectedLocation # "all"
                            /\ transactions[k].toLocation # selectedLocation }
      IN  acc # {} /\ Len(transactions') = Len(transactions) =>
            /\ \A a, b \in acc : a.transferGroupId = b.transferGroupId
            /\ \A a \in acc : selectedLocation = "all" \/ a.toLocation = selectedLocation
            /\ \A k \in rest :
                  /\ transactions'[k] = transactions[k]
                  /\ SettledOf(settled', transactions[k].id) = SettledOf(settled, transactions[k].id)
            /\ \A loc \in Locations : \A X \in ItemNames :
                  MemQty(inventory', loc, X)
                    = MemQty(inventory, loc, X) + Credit(transactions, acc, loc, X) ]_vars

\* a group was accepted after its first transaction had been rejected: the
\* rejected one was left alone, the other is completed and credited once
C30_Witness ==
  \E t, u \in Transfers(transactions) :
     /\ t.transferGroupId = u.transferGroupId
     /\ t.status = "rejected"
     /\ SettledOf(settled, t.id).credits = 0
     /\ u.status = "completed"
     /\ SettledOf(settled, u.id) = [credits |-> 1, restocks |-> 0]

\* a group was accepted while one of its transactions still waited for the
\* source's confirmation
C30_UnconfirmedWitness ==
  \E t, u \in Transfers(transactions) :
     /\ t.transferGroupId = u.transferGroupId
     /\ t.status = "pending_source"
     /\ SettledOf(settled, t.id).credits = 0
     /\ u.status = "completed"
     /\ SettledOf(settled, u.id).credits = 1

====
